---------------------------- MODULE Spec2Model ----------------------------
(***************************************************************************)
(* A model of pylicense's license-header engine                            *)
(* (src/src/pylicense/license_handler.py).                                 *)
(*                                                                         *)
(* Data representation.                                                    *)
(*   - A Python str without line feeds is a TLA+ string; TLC treats a      *)
(*     string as a sequence of one-character strings (Len, SubSeq, \o).    *)
(*   - A Python str that may hold line feeds (a file's content, a template *)
(*     body) is a Text: the non-empty sequence of its "\n"-separated       *)
(*     pieces, i.e. the value of s.split("\n").  <<"">> is the empty str,  *)
(*     <<"a","">> is "a\n".  Every other line boundary Python knows (form  *)
(*     feed, carriage return) stays an ordinary character inside a piece,  *)
(*     so split("\n") and splitlines() remain different functions.         *)
(*   - A file's bytes are a Text over the same alphabet plus two reserved  *)
(*     one-character stand-ins: NUL for the byte 0x00 and BADBYTE for a    *)
(*     byte that is not valid UTF-8 (0xFF).                                *)
(***************************************************************************)
EXTENDS Integers, Sequences, FiniteSets, TLC

VARIABLES
    fs,      \* path of each file -> the file's bytes (a Text)
    env,     \* the platform: each file's I/O fault and the default encoding
    call,    \* the last call made: operation name and arguments
    ret,     \* what that call returned (or that it raised)
    prev,    \* fs as it was before the last call
    seen,    \* the files the last call looked at
    counted, \* the files that counted in what the last call returned
    ncalls,  \* how many calls have been made
    config   \* the configuration object: its templates, patterns and ignored directories

vars == <<fs, env, call, ret, prev, seen, counted, ncalls, config>>

---------------------------------------------------------------------------
(* Strings *)

Char(s, i) == SubSeq(s, i, i)

Min(S) == CHOOSE m \in S : \A k \in S : m <= k

Max(S) == CHOOSE m \in S : \A k \in S : m >= k

\* s.startswith(p)
StartsWith(s, p) == Len(p) <= Len(s) /\ SubSeq(s, 1, Len(p)) = p

\* s.endswith(p)
EndsWith(s, p) == Len(p) <= Len(s) /\ SubSeq(s, Len(s) - Len(p) + 1, Len(s)) = p

\* sub in s
Contains(s, sub) ==
    \/ sub = ""
    \/ \E i \in 1..(Len(s) - Len(sub) + 1) :
          /\ Char(s, i) = Char(sub, 1)
          /\ SubSeq(s, i, i + Len(sub) - 1) = sub

\* s.find(sub, from): the least index >= from where sub occurs, 0 when none
Find(s, sub, from) ==
    LET First(hits) == IF hits = {} THEN 0 ELSE Min(hits)
    IN  First({i \in from..(Len(s) - Len(sub) + 1) :
                 /\ Char(s, i) = Char(sub, 1)
                 /\ SubSeq(s, i, i + Len(sub) - 1) = sub})

UpperChars == "ABCDEFGHIJKLMNOPQRSTUVWXYZ"

LowerChars == "abcdefghijklmnopqrstuvwxyz"

LowerMap == [i \in 1..Len(UpperChars) |-> Char(LowerChars, i)]

UpperSet == {Char(UpperChars, i) : i \in 1..Len(UpperChars)}

UpperIndex == [c \in UpperSet |-> CHOOSE i \in 1..Len(UpperChars) : Char(UpperChars, i) = c]

LowerChar(c) == IF c \in UpperSet THEN LowerMap[UpperIndex[c]] ELSE c

\* s.lower()
RECURSIVE Lower(_)
Lower(s) == IF s = "" THEN "" ELSE LowerChar(Head(s)) \o Lower(Tail(s))

Digits == "0123456789"

DigitSet == {Char(Digits, i) : i \in 1..Len(Digits)}

DigitValue == [c \in DigitSet |-> (CHOOSE i \in 1..Len(Digits) : Char(Digits, i) = c) - 1]

\* the characters regex \w matches: letters, digits, underscore
WordSet ==
    DigitSet \cup UpperSet \cup {Char(LowerChars, i) : i \in 1..Len(LowerChars)} \cup {"_", "ÿ"}

\* the characters str.strip() removes and regex \s matches
SpaceSet == {" ", "\t", "\r", "\f"}

\* the characters at which str.splitlines() breaks a "\n"-free piece
LineBreakSet == {"\r", "\f"}

\* bool(s.strip()): s has a character that is not white space
NonBlank(s) == \E i \in 1..Len(s) : Char(s, i) \notin SpaceSet

\* s.lstrip()
LStrip(s) ==
    LET From(keep) == IF keep = {} THEN "" ELSE SubSeq(s, Min(keep), Len(s))
    IN  From({i \in 1..Len(s) : Char(s, i) \notin SpaceSet})

\* s.rstrip()
RStrip(s) ==
    LET UpTo(keep) == IF keep = {} THEN "" ELSE SubSeq(s, 1, Max(keep))
    IN  UpTo({i \in 1..Len(s) : Char(s, i) \notin SpaceSet})

\* s.strip() of a "\n"-free str
Strip(s) == LStrip(RStrip(s))

\* int(s) of a run of decimal digits
RECURSIVE ParseInt(_)
ParseInt(s) ==
    IF s = "" THEN 0
    ELSE 10 * ParseInt(SubSeq(s, 1, Len(s) - 1)) + DigitValue[Char(s, Len(s))]

\* str(n) of a natural number
RECURSIVE NatToStr(_)
NatToStr(n) ==
    IF n < 10 THEN Char(Digits, n + 1)
    ELSE NatToStr(n \div 10) \o Char(Digits, (n % 10) + 1)

\* str(n)
IntToStr(n) == IF n < 0 THEN "-" \o NatToStr(0 - n) ELSE NatToStr(n)

---------------------------------------------------------------------------
(* Texts: a str as the sequence of its "\n"-separated pieces *)

\* the str "\n"
NL == <<"", "">>

\* a + b
TextCat(a, b) ==
    SubSeq(a, 1, Len(a) - 1) \o <<a[Len(a)] \o b[1]>> \o Tail(b)

\* "\n".join(lines), for "\n"-free lines
JoinNL(lines) == IF lines = <<>> THEN <<"">> ELSE lines

\* content.split("\n")
SplitNL(content) == content

\* content.split("\n", maxsplit): the first maxsplit pieces, then the rest as one
\* element (itself a Text, since it may hold "\n")
SplitNLMax(content, maxsplit) ==
    IF Len(content) <= maxsplit + 1
    THEN [i \in 1..Len(content) |-> <<content[i]>>]
    ELSE [i \in 1..(maxsplit + 1) |->
            IF i <= maxsplit THEN <<content[i]>>
            ELSE SubSeq(content, maxsplit + 1, Len(content))]

\* seq[:n]
Take(seq, n) == SubSeq(seq, 1, IF Len(seq) < n THEN Len(seq) ELSE n)

\* the pieces of a "\n"-free str at the other line boundaries splitlines() knows
RECURSIVE BreakPiece(_)
BreakPiece(s) ==
    LET At(cuts) ==
            IF cuts = {} THEN <<s>>
            ELSE <<SubSeq(s, 1, Min(cuts) - 1)>> \o BreakPiece(SubSeq(s, Min(cuts) + 1, Len(s)))
    IN  At({i \in 1..Len(s) : Char(s, i) \in LineBreakSet})

\* a piece that a "\n" follows and that ends in "\r" ends in the one boundary "\r\n"
RECURSIVE BreakAll(_)
BreakAll(content) ==
    IF content = <<>> THEN <<>>
    ELSE LET Piece(h) == IF Len(content) > 1 /\ EndsWith(h, "\r")
                         THEN SubSeq(h, 1, Len(h) - 1) ELSE h
         IN  BreakPiece(Piece(Head(content))) \o BreakAll(Tail(content))

\* content.splitlines(): break at every line boundary; a boundary at the very end
\* opens no further line
splitlines(content) ==
    LET Lines(pieces) ==
            IF pieces[Len(pieces)] = "" THEN SubSeq(pieces, 1, Len(pieces) - 1) ELSE pieces
    IN  Lines(BreakAll(content))


\* text.strip() of a str that may hold line feeds
StripText(t) ==
    LET Between(first, last) ==
            IF first = last THEN <<Strip(t[first])>>
            ELSE <<LStrip(t[first])>> \o SubSeq(t, first + 1, last - 1) \o <<RStrip(t[last])>>
        Kept(keep) == IF keep = {} THEN <<"">> ELSE Between(Min(keep), Max(keep))
    IN  Kept({i \in 1..Len(t) : NonBlank(t[i])})

---------------------------------------------------------------------------
(* Configuration tables *)

\* FilePattern(extensions, comment_start, comment_end)
FilePattern(extensions, comment_start, comment_end) ==
    [extensions |-> extensions, comment_start |-> comment_start, comment_end |-> comment_end]

PATTERNS ==
    << FilePattern(<<".py", ".sh", ".bash", ".ps1">>, "#", ""),
       FilePattern(<<".js", ".jsx", ".tsx", ".ts", ".c", ".cpp", ".h", ".hpp">>, "//", ""),
       FilePattern(<<".html", ".xml", ".svg", ".ui", ".qrc">>, "<!--", "-->"),
       FilePattern(<<".css", ".scss", ".less">>, "/*", "*/"),
       FilePattern(<<".java", ".kt", ".scala">>, "//", ""),
       FilePattern(<<".rb", ".rake">>, "#", ""),
       FilePattern(<<".rs", ".go">>, "//", ""),
       FilePattern(<<".php">>, "//", "") >>

IGNORED_DIRS ==
    { "__pycache__", "node_modules", ".git", ".hg", ".svn", "venv", ".venv",
      "build", "dist", ".pytest_cache", ".coverage", ".idea", ".vscode" }

BINARY_EXTENSIONS ==
    { ".exe", ".dll", ".so", ".dylib", ".bin", ".dat", ".png", ".jpg", ".jpeg",
      ".gif", ".ico", ".mp3", ".mp4", ".mkv", ".qm" }

TEMPLATE_MIT ==
    << "The MIT License (MIT)",
       "",
       "Copyright (c) {year} {author}",
       "",
       "Permission is hereby granted, free of charge, to any person obtaining a copy",
       "of this software and associated documentation files (the \"Software\"), to deal",
       "in the Software without restriction, including without limitation the rights",
       "to use, copy, modify, merge, publish, distribute, sublicense, and/or sell",
       "copies of the Software, and to permit persons to whom the Software is",
       "furnished to do so, subject to the following conditions:",
       "",
       "The above copyright notice and this permission notice shall be included in all",
       "copies or substantial portions of the Software.",
       "",
       "THE SOFTWARE IS PROVIDED \"AS IS\", WITHOUT WARRANTY OF ANY KIND, EXPRESS OR",
       "IMPLIED, INCLUDING BUT NOT LIMITED TO THE WARRANTIES OF MERCHANTABILITY,",
       "FITNESS FOR A PARTICULAR PURPOSE AND NONINFRINGEMENT. IN NO EVENT SHALL THE",
       "AUTHORS OR COPYRIGHT HOLDERS BE LIABLE FOR ANY CLAIM, DAMAGES OR OTHER",
       "LIABILITY, WHETHER IN AN ACTION OF CONTRACT, TORT OR OTHERWISE, ARISING FROM,",
       "OUT OF OR IN CONNECTION WITH THE SOFTWARE OR THE USE OR OTHER DEALINGS IN THE",
       "SOFTWARE." >>

TEMPLATE_GPL3 ==
    << "Copyright (C) {year} {author}",
       "",
       "This program is free software: you can redistribute it and/or modify",
       "it under the terms of the GNU General Public License as published by",
       "the Free Software Foundation, either version 3 of the License, or",
       "(at your option) any later version.",
       "",
       "This program is distributed in the hope that it will be useful,",
       "but WITHOUT ANY WARRANTY; without even the implied warranty of",
       "MERCHANTABILITY or FITNESS FOR A PARTICULAR PURPOSE.  See the",
       "GNU General Public License for more details.",
       "",
       "You should have received a copy of the GNU General Public License",
       "along with this program.  If not, see <https://www.gnu.org/licenses/>." >>

TEMPLATE_APACHE2 ==
    << "Copyright {year} {author}",
       "",
       "Licensed under the Apache License, Version 2.0 (the \"License\");",
       "you may not use this file except in compliance with the License.",
       "You may obtain a copy of the License at",
       "",
       "    http://www.apache.org/licenses/LICENSE-2.0",
       "",
       "Unless required by applicable law or agreed to in writing, software",
       "distributed under the License is distributed on an \"AS IS\" BASIS,",
       "WITHOUT WARRANTIES OR CONDITIONS OF ANY KIND, either express or implied.",
       "See the License for the specific language governing permissions and",
       "limitations under the License." >>

TemplateNames == {"mit", "gpl3", "apache2"}

LICENSE_TEMPLATES ==
    [n \in TemplateNames |->
        CASE n = "mit" -> TEMPLATE_MIT
          [] n = "gpl3" -> TEMPLATE_GPL3
          [] n = "apache2" -> TEMPLATE_APACHE2]

---------------------------------------------------------------------------
(* Paths: a path is a str with "/" between its components *)

\* the last component of a path (Path.name)
PathName(path) ==
    LET After(slashes) ==
            IF slashes = {} THEN path ELSE SubSeq(path, Max(slashes) + 1, Len(path))
    IN  After({i \in 1..Len(path) : Char(path, i) = "/"})

\* Path.suffix: the last component from its last dot on, unless that dot is the
\* first or the last character of the component
PathSuffix(path) ==
    LET From(name, dot) ==
            IF dot = 0 \/ dot = 1 \/ dot = Len(name) THEN "" ELSE SubSeq(name, dot, Len(name))
        LastDot(dots) == IF dots = {} THEN 0 ELSE Max(dots)
        Suffix(name) == From(name, LastDot({i \in 1..Len(name) : Char(name, i) = "."}))
    IN  Suffix(PathName(path))

\* the path is compared as it is written
_get_comment_style_index_CaseSensitive(file_path) ==
    LET First(hits) == IF hits = {} THEN 0 ELSE Min(hits)
    IN  First({k \in 1..Len(PATTERNS) :
                 \E e \in 1..Len(PATTERNS[k].extensions) :
                     EndsWith(file_path, PATTERNS[k].extensions[e])})

\* the first pattern one of whose extensions ends the lower-cased path; 0 is None
_get_comment_style_index(file_path) ==
    LET First(hits) == IF hits = {} THEN 0 ELSE Min(hits)
        Matching(patterns, path_lower) ==
            {k \in 1..Len(patterns) :
                \E e \in 1..Len(patterns[k].extensions) :
                    EndsWith(path_lower, patterns[k].extensions[e])}
    IN  First(Matching(PATTERNS, Lower(file_path)))

NoStyle == <<>>

\* (comment_start, comment_end) of the first matching pattern, or None (NoStyle)
_get_comment_style(file_path) ==
    LET Style(pattern) == <<pattern.comment_start, pattern.comment_end>>
        Of(k) == IF k = 0 THEN NoStyle ELSE Style(PATTERNS[k])
    IN  Of(_get_comment_style_index(file_path))

_is_special_xml_file(file_path) ==
    Lower(PathSuffix(file_path)) \in {".ui", ".qrc", ".xml", ".svg", ".html"}

---------------------------------------------------------------------------
(* Template formatting: license_template.format, piece by piece.  A result  *)
(* is [err, text]: err = "" and the formatted text, or the exception raised. *)

NoVars == <<>>

\* custom_vars as a sequence of <<name, value>> pairs; a later pair wins, and
\* custom_vars.update comes after year and author
Replacements(author, year, custom_vars) ==
    <<<<"year", IntToStr(year)>>, <<"author", author>>>> \o custom_vars

HasKey(repl, name) == \E i \in 1..Len(repl) : repl[i][1] = name

Lookup(repl, name) == repl[Max({i \in 1..Len(repl) : repl[i][1] = name})][2]

AllDigits(s) == \A i \in 1..Len(s) : Char(s, i) \in DigitSet

\* one piece through str.format: "{{" and "}}" are literal braces, "{name}" is
\* replaced, a name not supplied raises KeyError, an empty or numeric name
\* IndexError (no positional arguments are passed), a lone brace ValueError
RECURSIVE FormatPiece(_, _)
FormatPiece(s, repl) ==
    LET failed(e) == [err |-> e, str |-> ""]
        glue(before, lit, r) ==
            IF r.err = "" THEN [err |-> "", str |-> before \o lit \o r.str] ELSE r
        rest(k) == FormatPiece(SubSeq(s, k, Len(s)), repl)
        Field(i, close, name) ==
            IF close = 0 THEN failed("ValueError")
            ELSE IF name = "" \/ AllDigits(name) THEN failed("IndexError")
            ELSE IF ~HasKey(repl, name) THEN failed("KeyError")
            ELSE glue(SubSeq(s, 1, i - 1), Lookup(repl, name), rest(close + 1))
        Closing(i, close) == Field(i, close, SubSeq(s, i + 1, close - 1))
        Brace(i) ==
            IF i < Len(s) /\ Char(s, i + 1) = Char(s, i)
            THEN glue(SubSeq(s, 1, i - 1), Char(s, i), rest(i + 2))
            ELSE IF Char(s, i) = "}" THEN failed("ValueError")
            ELSE Closing(i, Find(s, "}", i + 1))
        Braces(braces) == IF braces = {} THEN [err |-> "", str |-> s] ELSE Brace(Min(braces))
    IN  Braces({i \in 1..Len(s) : Char(s, i) \in {"{", "}"}})

RECURSIVE FormatPieces(_, _)
FormatPieces(t, repl) ==
    LET Both(h, r) ==
            IF h.err # "" THEN [err |-> h.err, text |-> <<>>]
            ELSE IF r.err # "" THEN r
            ELSE [err |-> "", text |-> <<h.str>> \o r.text]
    IN  IF t = <<>> THEN [err |-> "", text |-> <<>>]
        ELSE Both(FormatPiece(Head(t), repl), FormatPieces(Tail(t), repl))

\* placeholders that are not supplied are left as they are
_format_license_text_Lenient(license_template, author, year, custom_vars) ==
    [err |-> "", text |-> license_template]

_format_license_text(license_template, author, year, custom_vars) ==
    FormatPieces(license_template, Replacements(author, year, custom_vars))

---------------------------------------------------------------------------
(* Header codec *)

\* a blank body line keeps the space after the marker
_create_license_header_SpaceKept(license_template, author, year, custom_vars, comment_style) ==
    LET Commented(lines, comment_start, comment_end) ==
            IF comment_end # ""
            THEN <<comment_start>> \o [i \in 1..Len(lines) |-> " " \o lines[i]]
                 \o <<comment_end>>
            ELSE [i \in 1..Len(lines) |-> comment_start \o " " \o lines[i]]
        Header(license_text) ==
            IF license_text.err # "" THEN [err |-> license_text.err, lines |-> <<>>]
            ELSE [err |-> "",
                  lines |-> Commented(SplitNL(StripText(license_text.text)),
                                      comment_style[1], comment_style[2])]
    IN  Header(_format_license_text(license_template, author, year, custom_vars))

\* the header lines, or the exception formatting raised: [err, lines]
_create_license_header(license_template, author, year, custom_vars, comment_style) ==
    LET Commented(lines, comment_start, comment_end) ==
            IF comment_end # ""
            THEN <<comment_start>>
                 \o [i \in 1..Len(lines) |->
                       IF NonBlank(lines[i]) THEN " " \o lines[i] ELSE " "]
                 \o <<comment_end>>
            ELSE [i \in 1..Len(lines) |->
                    IF NonBlank(lines[i]) THEN comment_start \o " " \o lines[i]
                    ELSE comment_start]
        Header(license_text) ==
            IF license_text.err # "" THEN [err |-> license_text.err, lines |-> <<>>]
            ELSE [err |-> "",
                  lines |-> Commented(SplitNL(StripText(license_text.text)),
                                      comment_style[1], comment_style[2])]
    IN  Header(_format_license_text(license_template, author, year, custom_vars))

HeaderWindow == 10

license_indicators == <<"license", "copyright", "mit", "gpl", "apache", "©">>

\* the line and the marker are compared as written
_has_license_header_AsWritten(content, comment_start) ==
    LET Indicated(line) ==
            /\ StartsWith(line, comment_start)
            /\ \E k \in 1..Len(license_indicators) : Contains(line, license_indicators[k])
        AnyOf(first_lines) == \E n \in 1..Len(first_lines) : Indicated(first_lines[n][1])
    IN  AnyOf(Take(SplitNLMax(content, HeaderWindow), HeaderWindow))

_has_license_header(content, comment_start) ==
    LET Indicated(line_lower) ==
            /\ StartsWith(line_lower, Lower(comment_start))
            /\ \E k \in 1..Len(license_indicators) :
                   Contains(line_lower, license_indicators[k])
        AnyOf(first_lines) ==
            \E n \in 1..Len(first_lines) : Indicated(Lower(first_lines[n][1]))
    IN  AnyOf(Take(SplitNLMax(content, HeaderWindow), HeaderWindow))

YearDigits == 4

\* re.compile(r"(\b\d{4}\b)").search(line): where the first match starts, 0 when none
YearSearch(line) ==
    LET First(hits) == IF hits = {} THEN 0 ELSE Min(hits)
        Boundary(c) == c \notin WordSet
    IN  First({i \in 1..(Len(line) - YearDigits + 1) :
                 /\ AllDigits(SubSeq(line, i, i + YearDigits - 1))
                 /\ (i = 1 \/ Boundary(Char(line, i - 1)))
                 /\ (i + YearDigits - 1 = Len(line) \/ Boundary(Char(line, i + YearDigits)))})

\* Optional[int]: None is the empty tuple, the int n is <<n>>
None == <<>>

Some(n) == <<n>>

_extract_year_from_header(content, comment_start) ==
    LET Year(line, at) == Some(ParseInt(SubSeq(line, at, at + YearDigits - 1)))
        Match(line) == Year(line, YearSearch(line))
        FirstOf(first_lines, hits) ==
            IF hits = {} THEN None ELSE Match(first_lines[Min(hits)][1])
        Scan(first_lines) ==
            FirstOf(first_lines,
                    {n \in 1..Len(first_lines) :
                        /\ StartsWith(first_lines[n][1], comment_start)
                        /\ YearSearch(first_lines[n][1]) # 0})
    IN  Scan(Take(SplitNLMax(content, HeaderWindow), HeaderWindow))

\* the substitution left out: the line stays as it is
YearSub_Keep(line, new_year) == line

\* year_pattern.sub(str(new_year), line, count=1)
YearSub(line, new_year) ==
    LET Sub(at) ==
            IF at = 0 THEN line
            ELSE SubSeq(line, 1, at - 1) \o IntToStr(new_year)
                 \o SubSeq(line, at + YearDigits, Len(line))
    IN  Sub(YearSearch(line))

\* every line is looked at, not the first ten only
_update_license_year_in_content_AllLines(content, comment_start, new_year) ==
    LET lines == SplitNL(content)
    IN  JoinNL([i \in 1..Len(lines) |->
                  IF StartsWith(lines[i], comment_start) THEN YearSub(lines[i], new_year)
                  ELSE lines[i]])

_update_license_year_in_content(content, comment_start, new_year) ==
    LET lines == SplitNL(content)
    IN  JoinNL([i \in 1..Len(lines) |->
                  IF i <= HeaderWindow /\ StartsWith(lines[i], comment_start)
                  THEN YearSub(lines[i], new_year)
                  ELSE lines[i]])

---------------------------------------------------------------------------
(* The file system and the platform *)

\* stand-in for the byte 0x00
NUL == "^"

\* stand-in for a byte that no UTF-8 sequence holds (0xFF)
BADBYTE == "~"

\* what the byte 0xFF decodes to under a single-byte default encoding (latin-1)
BADBYTE_LATIN1 == "ÿ"

\* I/O faults a file can have in a run
FaultModes ==
    { "ok",        \* every system call succeeds
      "probe",     \* open(path, "rb") raises OSError: the file cannot be opened at all
      "read",      \* read_text raises OSError although the probe's read succeeded
      "open_w",    \* write_text raises OSError when it opens the file: nothing is written
      "write" }    \* write_text raises OSError after open(path, "w") truncated the file

Encodings == {"utf-8", "latin-1"}

\* Path.is_file()
is_file(files, path) == path \in DOMAIN files

\* every path counts as a directory
is_dir_Always(files, path) == TRUE

\* Path.is_dir(): the path is a proper directory prefix of a file
is_dir(files, path) ==
    \E f \in DOMAIN files : StartsWith(f, path \o "/")

\* the entries of directory root that are files, and those that are directories
FilesIn(files, root) ==
    {f \in DOMAIN files :
        /\ StartsWith(f, root \o "/")
        /\ ~Contains(SubSeq(f, Len(root) + 2, Len(f)), "/")}

DirsIn(files, root) ==
    {SubSeq(f, Len(root) + 2, Find(f, "/", Len(root) + 2) - 1) :
        f \in {g \in DOMAIN files :
                 /\ StartsWith(g, root \o "/")
                 /\ Contains(SubSeq(g, Len(root) + 2, Len(g)), "/")}}

\* a directory listing: the entries of a set in some order (os.listdir promises none)
RECURSIVE Listing(_)
Listing(S) ==
    IF S = {} THEN <<>>
    ELSE LET x == CHOOSE x \in S : TRUE IN <<x>> \o Listing(S \ {x})

RECURSIVE FlattenSeq(_)
FlattenSeq(ss) == IF ss = <<>> THEN <<>> ELSE Head(ss) \o FlattenSeq(Tail(ss))

\* no directory is pruned
Pruned_None(dirs) == dirs

\* dirs[:] = [d for d in dirs if d not in IGNORED_DIRS]
Pruned(dirs) == dirs \ IGNORED_DIRS

\* for root, dirs, files in os.walk(root), with
\* dirs[:] = [d for d in dirs if d not in IGNORED_DIRS]: the paths Path(root) / file
\* in the order visited, top-down, without the pruned sub-directories
RECURSIVE Walk(_, _)
Walk(files, root) ==
    LET Below(dirs) ==
            FlattenSeq([i \in 1..Len(dirs) |-> Walk(files, root \o "/" \o dirs[i])])
    IN  Listing(FilesIn(files, root)) \o Below(Listing(Pruned(DirsIn(files, root))))

ProbeChunk == 1024

\* the number of bytes UTF-8 needs for a character
ByteLen(c) == IF c \in {"©", BADBYTE_LATIN1} THEN 2 ELSE 1

RECURSIVE ByteCount(_)
ByteCount(s) == IF s = "" THEN 0 ELSE ByteLen(Head(s)) + ByteCount(Tail(s))

\* the bytes that precede piece k of data: the pieces before it and their "\n"
RECURSIVE BytesBefore(_, _)
BytesBefore(data, k) ==
    IF k = 1 THEN 0 ELSE BytesBefore(data, k - 1) + ByteCount(data[k - 1]) + 1

\* b"\0" in f.read(1024)
NulInChunk(data) ==
    \E k \in 1..Len(data) :
        /\ Contains(data[k], NUL)
        /\ BytesBefore(data, k) + ByteCount(SubSeq(data[k], 1, Find(data[k], NUL, 1))) <= ProbeChunk

\* only the extension is looked at
is_binary_ExtensionOnly(files, platform, file_path) ==
    Lower(PathSuffix(file_path)) \in BINARY_EXTENSIONS

is_binary(files, platform, file_path) ==
    IF Lower(PathSuffix(file_path)) \in BINARY_EXTENSIONS THEN TRUE
    ELSE IF platform.fault[file_path] = "probe" THEN TRUE
    ELSE NulInChunk(files[file_path])

\* universal newlines: "\r\n" and "\r" both read as "\n"
RECURSIVE TranslateNewlines(_)
TranslateNewlines(data) ==
    LET Cut(piece, cut) ==
            IF cut = 0 THEN <<piece>> \o TranslateNewlines(Tail(data))
            ELSE <<SubSeq(piece, 1, cut - 1)>>
                 \o TranslateNewlines(<<SubSeq(piece, cut + 1, Len(piece))>> \o Tail(data))
        Translate(piece) == Cut(piece, Find(piece, "\r", 1))
        Piece(h) == IF Len(data) > 1 /\ EndsWith(h, "\r") THEN SubSeq(h, 1, Len(h) - 1) ELSE h
    IN  IF data = <<>> THEN <<>> ELSE Translate(Piece(Head(data)))

RECURSIVE ReplaceChar(_, _, _)
ReplaceChar(s, c, d) ==
    LET Replace(at) ==
            IF at = 0 THEN s
            ELSE SubSeq(s, 1, at - 1) \o d \o ReplaceChar(SubSeq(s, at + 1, Len(s)), c, d)
    IN  Replace(Find(s, c, 1))

Undecodable(data) == \E k \in 1..Len(data) : Contains(data[k], BADBYTE)

\* bytes.decode(encoding): [err, text]
Decode(data, encoding) ==
    IF ~Undecodable(data) THEN [err |-> "", text |-> data]
    ELSE IF encoding = "utf-8" THEN [err |-> "UnicodeDecodeError", text |-> <<"">>]
    ELSE [err |-> "",
          text |-> [k \in 1..Len(data) |-> ReplaceChar(data[k], BADBYTE, BADBYTE_LATIN1)]]

\* Path.read_text(encoding): [err, text]
read_text(files, platform, file_path, encoding) ==
    LET Decoded(d) ==
            IF d.err # "" THEN d ELSE [err |-> "", text |-> TranslateNewlines(d.text)]
    IN  IF platform.fault[file_path] \in {"probe", "read"}
        THEN [err |-> "OSError", text |-> <<"">>]
        ELSE Decoded(Decode(files[file_path], encoding))

\* content = read_text(encoding="utf-8"), and on UnicodeDecodeError read_text()
\* with the platform's default encoding
ReadContent(files, platform, file_path) ==
    LET Fallback(first) ==
            IF first.err = "UnicodeDecodeError"
            THEN read_text(files, platform, file_path, platform.encoding)
            ELSE first
    IN  Fallback(read_text(files, platform, file_path, "utf-8"))

\* Path.write_text(text, encoding="utf-8"): [err, data], data being the file's
\* bytes afterwards
write_text(files, platform, file_path, text) ==
    CASE platform.fault[file_path] = "open_w" -> [err |-> "OSError", data |-> files[file_path]]
      [] platform.fault[file_path] = "write" -> [err |-> "OSError", data |-> <<"">>]
      [] OTHER -> [err |-> "", data |-> text]

---------------------------------------------------------------------------
(* File processor *)

RECURSIVE TextCatAll(_)
TextCatAll(ts) == IF Len(ts) = 1 THEN ts[1] ELSE TextCat(ts[1], TextCatAll(Tail(ts)))

\* line.strip().startswith(("<?xml", "<!DOCTYPE"))
IsDeclaration(line) ==
    LET Declares(stripped) == StartsWith(stripped, "<?xml") \/ StartsWith(stripped, "<!DOCTYPE")
    IN  Declares(Strip(line))

\* the loop that collects xml_decl_lines: how many leading lines are declarations
RECURSIVE DeclarationRun(_)
DeclarationRun(lines) ==
    IF lines = <<>> \/ ~IsDeclaration(Head(lines)) THEN 0
    ELSE 1 + DeclarationRun(Tail(lines))

\* the header goes above the shebang line
ShebangContent_HeaderFirst(lines, header) ==
    TextCatAll(<< header, NL, NL, JoinNL(lines) >>)

\* new_content when lines[0].startswith("#!"): the shebang line stays first
ShebangContent(lines, header) ==
    TextCatAll(<< <<lines[1]>>, NL, header, NL, NL, JoinNL(Tail(lines)) >>)

\* the text _process_file_with_license writes
NewContent(file_path, content, header_lines, force) ==
    LET AfterDeclarations(lines, header, content_start_idx) ==
            TextCatAll(<< JoinNL(SubSeq(lines, 1, content_start_idx)), NL, header, NL, NL,
                          JoinNL(SubSeq(lines, content_start_idx + 1, Len(lines))) >>)
        Insert(lines, header) ==
            IF lines = <<>> THEN TextCat(header, NL)
            ELSE IF StartsWith(lines[1], "#!") THEN ShebangContent(lines, header)
            ELSE IF /\ _is_special_xml_file(file_path)
                    /\ \E i \in 1..Len(Take(lines, 2)) : IsDeclaration(lines[i])
            THEN AfterDeclarations(lines, header, DeclarationRun(lines))
            ELSE IF force THEN TextCatAll(<< header, NL, NL, JoinNL(lines) >>)
            ELSE TextCatAll(<< header, NL, NL, content >>)
    IN  Insert(splitlines(content), JoinNL(header_lines))

\* a header that is there already is not looked for
SkipsLicensed_Never(content, comment_start, force) == FALSE

\* if _has_license_header(content, comment_start) and not force: return False
SkipsLicensed(content, comment_start, force) ==
    _has_license_header(content, comment_start) /\ ~force

\* the exception is not caught
Failed_Raises(data) == [result |-> FALSE, data |-> data, err |-> "OSError"]

\* except (OSError, UnicodeDecodeError): return False; data is what the file
\* holds by then
Failed(data) == [result |-> FALSE, data |-> data, err |-> ""]

\* [result, data, err]: the bool returned, the file's bytes afterwards, and the
\* exception that escapes ("" when none does)
_process_file_with_license(files, platform, file_path, license_template, author, year, custom_vars, force) ==
    LET Skip(e) == [result |-> FALSE, data |-> files[file_path], err |-> e]
        Written(wr) ==
            IF wr.err # "" THEN Failed(wr.data)
            ELSE [result |-> TRUE, data |-> wr.data, err |-> ""]
        Insert(content, header) ==
            IF header.err # "" THEN Skip(header.err)
            ELSE Written(write_text(files, platform, file_path,
                                    NewContent(file_path, content, header.lines, force)))
        Process(comment_style, rd) ==
            IF comment_style = NoStyle THEN Skip("")
            ELSE IF rd.err # "" THEN Failed(files[file_path])
            ELSE IF SkipsLicensed(rd.text, comment_style[1], force) THEN Skip("")
            ELSE Insert(rd.text,
                        _create_license_header(license_template, author, year, custom_vars,
                                               comment_style))
    IN  Process(_get_comment_style(file_path), ReadContent(files, platform, file_path))

---------------------------------------------------------------------------
(* Bulk operations.  Each returns [files, ret, raised, seen, counted]: the    *)
(* file system afterwards, the value returned, the exception that escaped     *)
(* instead ("" when the call returned), the files the operation looked at and *)
(* the files that counted in the value returned.                              *)

\* the record of a run: the files looked at and those that counted
NoLog == [seen |-> {}, counted |-> {}]

Logged(log, file_path, counts) ==
    [seen |-> log.seen \cup {file_path},
     counted |-> IF counts THEN log.counted \cup {file_path} ELSE log.counted]

Returned(files, value, log) ==
    [files |-> files, ret |-> value, raised |-> "", seen |-> log.seen,
     counted |-> log.counted]

\* the call ends in an exception: there is no return value (ret is a filler)
Raised(files, e, log) ==
    [files |-> files, ret |-> 0, raised |-> e, seen |-> log.seen, counted |-> log.counted]

\* LICENSE_TEMPLATES.get(license_template, license_template)
ResolveTemplate(license_template) ==
    IF Len(license_template) = 1 /\ license_template[1] \in DOMAIN LICENSE_TEMPLATES
    THEN LICENSE_TEMPLATES[license_template[1]]
    ELSE license_template

\* every file processed counts
CountProcessed_Always(processed, result) == processed + 1

\* if result: processed += 1
CountProcessed(processed, result) == IF result THEN processed + 1 ELSE processed

\* the body of apply_license's loop over the files of a walk
RECURSIVE ApplyLoop(_, _, _, _, _, _)
ApplyLoop(todo, files, platform, a, processed, log) ==
    LET Step(file_path, r) ==
            IF is_binary(files, platform, file_path)
            THEN ApplyLoop(Tail(todo), files, platform, a, processed,
                           Logged(log, file_path, FALSE))
            ELSE IF r.err # ""
            THEN Raised(files, r.err, Logged(log, file_path, FALSE))
            ELSE ApplyLoop(Tail(todo), [files EXCEPT ![file_path] = r.data], platform, a,
                           CountProcessed(processed, r.result),
                           Logged(log, file_path, r.result))
    IN  IF todo = <<>> THEN Returned(files, processed, log)
        ELSE Step(Head(todo),
                  _process_file_with_license(files, platform, Head(todo), a.license_text,
                                             a.author, a.year, a.custom_vars, a.force))

apply_license(files, platform, path, license_template, author, year, custom_vars, force) ==
    LET Single(r) ==
            IF r.err # "" THEN Raised(files, r.err, Logged(NoLog, path, FALSE))
            ELSE Returned([files EXCEPT ![path] = r.data], IF r.result THEN 1 ELSE 0,
                          Logged(NoLog, path, r.result))
        Apply(license_text) ==
            IF is_file(files, path)
            THEN IF is_binary(files, platform, path)
                 THEN Returned(files, 0, Logged(NoLog, path, FALSE))
                 ELSE Single(_process_file_with_license(files, platform, path, license_text,
                                                        author, year, custom_vars, force))
            ELSE IF ~is_dir(files, path) THEN Returned(files, 0, NoLog)
            ELSE ApplyLoop(Walk(files, path), files, platform,
                           [license_text |-> license_text, author |-> author, year |-> year,
                            custom_vars |-> custom_vars, force |-> force],
                           0, NoLog)
    IN  Apply(ResolveTemplate(license_template))

\* the year is rewritten also when it is new_year already
NeedsUpdate_AnyYear(current_year, new_year) == current_year # None

\* if current_year is not None and current_year != new_year
NeedsUpdate(current_year, new_year) ==
    current_year # None /\ current_year # Some(new_year)

\* [result, data]: 1 when the year was rewritten, and the file's bytes afterwards
_update_single_file_year(files, platform, path, new_year) ==
    LET Skip(data) == [result |-> 0, data |-> data]
        Written(wr) ==
            IF wr.err # "" THEN Skip(wr.data) ELSE [result |-> 1, data |-> wr.data]
        Rewrite(content, comment_start, current_year) ==
            IF ~NeedsUpdate(current_year, new_year) THEN Skip(files[path])
            ELSE Written(write_text(files, platform, path,
                                    _update_license_year_in_content(content, comment_start,
                                                                    new_year)))
        Update(comment_style, rd) ==
            IF is_binary(files, platform, path) THEN Skip(files[path])
            ELSE IF comment_style = NoStyle THEN Skip(files[path])
            ELSE IF rd.err # "" THEN Skip(files[path])
            ELSE IF ~_has_license_header(rd.text, comment_style[1]) THEN Skip(files[path])
            ELSE Rewrite(rd.text, comment_style[1],
                         _extract_year_from_header(rd.text, comment_style[1]))
    IN  Update(_get_comment_style(path), ReadContent(files, platform, path))

RECURSIVE UpdateLoop(_, _, _, _, _, _)
UpdateLoop(todo, files, platform, new_year, updated, log) ==
    LET Step(file_path, r) ==
            UpdateLoop(Tail(todo), [files EXCEPT ![file_path] = r.data], platform,
                       new_year, updated + r.result, Logged(log, file_path, r.result = 1))
    IN  IF todo = <<>> THEN Returned(files, updated, log)
        ELSE Step(Head(todo), _update_single_file_year(files, platform, Head(todo), new_year))

_update_directory_years(files, platform, directory, new_year) ==
    UpdateLoop(Walk(files, directory), files, platform, new_year, 0, NoLog)

update_license_year(files, platform, path, new_year) ==
    LET Single(r) ==
            Returned([files EXCEPT ![path] = r.data], r.result,
                     Logged(NoLog, path, r.result = 1))
    IN  IF is_file(files, path)
        THEN Single(_update_single_file_year(files, platform, path, new_year))
        ELSE IF ~is_dir(files, path) THEN Returned(files, 0, NoLog)
        ELSE _update_directory_years(files, platform, path, new_year)

_get_license_key_phrases(license_template) ==
    CASE license_template = "mit" ->
            << "mit license", "permission is hereby granted", "without restriction",
               "the software is provided as is" >>
      [] license_template = "gpl3" ->
            << "free software", "gnu general public license", "without warranty",
               "see the gnu general public license" >>
      [] license_template = "apache2" ->
            << "apache license", "licensed under the apache license",
               "without warranties or conditions", "licenses this file" >>
      [] OTHER -> << "copyright", "license" >>

VerifyWindow == 20

\* the words of a "\n"-free str (its maximal runs of non-space characters), joined
\* by single spaces
RECURSIVE Words(_)
Words(s) ==
    LET Join(word, rest) == IF rest = "" THEN word ELSE word \o " " \o rest
        Split(t, gaps) ==
            IF gaps = {} THEN t
            ELSE Join(SubSeq(t, 1, Min(gaps) - 1), Words(SubSeq(t, Min(gaps), Len(t))))
        Of(t) == IF t = "" THEN "" ELSE Split(t, {i \in 1..Len(t) : Char(t, i) \in SpaceSet})
    IN  Of(LStrip(s))

RECURSIVE JoinWords(_)
JoinWords(ws) ==
    LET Join(word, rest) ==
            IF word = "" THEN rest
            ELSE IF rest = "" THEN word
            ELSE word \o " " \o rest
    IN  IF ws = <<>> THEN "" ELSE Join(Head(ws), JoinWords(Tail(ws)))

\* re.sub(r"\s+", " ", text): every run of white space, line feeds included,
\* becomes one space
CollapseSpace(text) ==
    LET Leads(first) == IF first = "" THEN Len(text) > 1 ELSE Char(first, 1) \in SpaceSet
        Trails(last) == IF last = "" THEN Len(text) > 1 ELSE Char(last, Len(last)) \in SpaceSet
        Collapsed(body, lead, trail) ==
            IF body = "" THEN (IF lead \/ trail THEN " " ELSE "")
            ELSE (IF lead THEN " " ELSE "") \o body \o (IF trail THEN " " ELSE "")
    IN  Collapsed(JoinWords([k \in 1..Len(text) |-> Words(text[k])]),
                  Leads(text[1]), Trails(text[Len(text)]))

\* every phrase is needed: a content lacking one matches none
PhraseMatches_AllOrNothing(norm_content, license_key_phrases) ==
    IF \A k \in 1..Len(license_key_phrases) : Contains(norm_content, license_key_phrases[k])
    THEN Len(license_key_phrases)
    ELSE 0

\* how many of the key phrases occur in the normalised first lines
PhraseMatches(norm_content, license_key_phrases) ==
    Cardinality({k \in 1..Len(license_key_phrases) :
                    Contains(norm_content, license_key_phrases[k])})

_check_file_license(files, platform, file_path, license_key_phrases) ==
    LET Normalised(content_to_check) ==
            CollapseSpace([k \in 1..Len(content_to_check) |-> Lower(content_to_check[k])])
        Window(first_lines) == JoinNL([k \in 1..Len(first_lines) |-> first_lines[k][1]])
        Check(comment_style, rd) ==
            IF is_binary(files, platform, file_path) THEN FALSE
            ELSE IF comment_style = NoStyle THEN FALSE
            ELSE IF rd.err # "" THEN FALSE
            ELSE IF ~_has_license_header(rd.text, comment_style[1]) THEN FALSE
            ELSE 2 * PhraseMatches(
                         Normalised(Window(Take(SplitNLMax(rd.text, VerifyWindow),
                                                VerifyWindow))),
                         license_key_phrases) >= Len(license_key_phrases)
    IN  Check(_get_comment_style(file_path), ReadContent(files, platform, file_path))

\* skipped files count as well
CountTotal_All(total_files, skipped) == total_files + 1

\* total_files += 1, unless the file was skipped as binary or without a style
CountTotal(total_files, skipped) == IF skipped THEN total_files ELSE total_files + 1

RECURSIVE VerifyLoop(_, _, _, _, _, _, _)
VerifyLoop(todo, files, platform, license_key_phrases, files_with_license, total_files, log) ==
    LET Step(file_path, skipped, ok) ==
            VerifyLoop(Tail(todo), files, platform, license_key_phrases,
                       IF ~skipped /\ ok THEN files_with_license + 1 ELSE files_with_license,
                       CountTotal(total_files, skipped),
                       Logged(log, file_path, ~skipped /\ ok))
    IN  IF todo = <<>>
        THEN Returned(files, <<files_with_license, total_files>>, log)
        ELSE Step(Head(todo),
                  \/ is_binary(files, platform, Head(todo))
                  \/ _get_comment_style(Head(todo)) = NoStyle,
                  _check_file_license(files, platform, Head(todo), license_key_phrases))

_verify_directory_licenses(files, platform, directory, license_key_phrases) ==
    VerifyLoop(Walk(files, directory), files, platform, license_key_phrases, 0, 0, NoLog)

verify_license(files, platform, path, license_template) ==
    LET Single(ok) == Returned(files, <<IF ok THEN 1 ELSE 0, 1>>, Logged(NoLog, path, ok))
        Verify(license_key_phrases) ==
            IF is_file(files, path)
            THEN IF is_binary(files, platform, path) \/ _get_comment_style(path) = NoStyle
                 THEN Returned(files, <<0, 0>>, Logged(NoLog, path, FALSE))
                 ELSE Single(_check_file_license(files, platform, path, license_key_phrases))
            ELSE IF ~is_dir(files, path) THEN Returned(files, <<0, 0>>, NoLog)
            ELSE _verify_directory_licenses(files, platform, path, license_key_phrases)
    IN  Verify(_get_license_key_phrases(license_template))

---------------------------------------------------------------------------
(* The LICENSE file *)

\* a file that does not exist (a Text always has a piece)
Absent == <<>>

\* nothing is stored
Stored_Nothing(files, file_path, data) == files

\* the files with file_path holding data, or left out when data is Absent
Stored(files, file_path, data) ==
    IF data = Absent THEN [f \in DOMAIN files \ {file_path} |-> files[f]]
    ELSE [f \in DOMAIN files \cup {file_path} |->
             IF f = file_path THEN data ELSE files[f]]

\* the file's bytes, Absent when there is no such file
Existing(files, file_path) ==
    IF file_path \in DOMAIN files THEN files[file_path] ELSE Absent

\* the files as write_text finds them: file_path is there, Absent when it is new
Opened(files, file_path) ==
    [f \in DOMAIN files \cup {file_path} |-> Existing(files, f)]

create_license_file(files, platform, path, license_template, author, year, custom_vars) ==
    LET Created(license_file, wr) ==
            Returned(Stored(files, license_file, wr.data), wr.err = "",
                     Logged(NoLog, license_file, wr.err = ""))
        Write(license_file, formatted_license) ==
            IF formatted_license.err # "" THEN Raised(files, formatted_license.err, NoLog)
            ELSE Created(license_file,
                         write_text(Opened(files, license_file), platform, license_file,
                                    formatted_license.text))
    IN  IF ~is_dir(files, path) THEN Returned(files, FALSE, NoLog)
        ELSE Write(path \o "/LICENSE",
                   _format_license_text(ResolveTemplate(license_template), author, year,
                                        custom_vars))

---------------------------------------------------------------------------
(* The project tree the operations run on *)

PY == "proj/main.py"

SH == "proj/run.sh"

JS == "proj/lib/app.js"

HTML == "proj/lib/page.html"

GEN == "proj/build/gen.py"

DEP == "proj/lib/node_modules/dep.js"

TXT == "proj/notes.txt"

PNG == "proj/logo.png"

Paths == {PY, SH, JS, HTML, GEN, DEP, TXT, PNG}

C_EMPTY == <<"">>

C_PLAIN == <<"def hello():", "    print('Hi')", "">>

C_SHEBANG == <<"#!/bin/bash", "echo \"Hello from shell!\"", "">>

C_SHEBANG_ONLY == <<"#!/usr/bin/env python3.2024">>

\* a shebang line with a year in the interpreter's path, above a header
C_SHEBANG_YEAR ==
    <<"#!/opt/python-2019/bin/python", "# Copyright 2022 Test Author", "x = 1", "">>

C_OLD == <<"# Copyright (C) 2022 Test Author", "# This is a test file.", "def test():",
           "    pass", "">>

C_RANGE == <<"// Copyright 2020-2023 Test", "// All rights reserved.", "">>

C_XML == <<"<?xml version=\"1.0\" encoding=\"UTF-8\"?>", "<root>", "</root>", "">>

C_XML_SECOND == <<"<root/>", "<?xml version=\"1.0\"?>", "<a/>">>

C_BLOCK_OLD == <<"<!-- Copyright 2022 Test -->", "<p>x</p>", "">>

C_FORMFEED == <<"import os\f", "x = 1", "">>

C_CRLF == <<"#!/bin/sh\r", "# license 2022\r", "echo\r", "">>

\* a file with "\r\n" line ends and no license header
C_DOS == <<"x = 1\r", "y = 2\r", "">>

C_LATE == <<"", "", "", "", "", "", "", "", "", "", "# Copyright 2022 Late">>

C_NUL == <<"GIF89a" \o NUL \o NUL, "x">>

C_BAD == <<"# Copyright 2022 Caf" \o BADBYTE, "x = 1", "">>

\* a licensed file whose first zero byte lies beyond the bytes is_binary reads
C_NUL_FAR ==
    TextCat(JoinNL(_create_license_header(TEMPLATE_MIT, "A", 2022, <<>>, <<"#", "">>).lines),
            <<"", NUL>>)

Contents ==
    { C_EMPTY, C_PLAIN, C_SHEBANG, C_SHEBANG_ONLY, C_SHEBANG_YEAR, C_OLD, C_RANGE, C_XML,
      C_XML_SECOND, C_BLOCK_OLD, C_FORMFEED, C_CRLF, C_DOS, C_LATE, C_NUL, C_BAD, C_NUL_FAR }

BaseTree ==
    [p \in Paths |->
        CASE p = PY -> C_PLAIN
          [] p = SH -> C_SHEBANG
          [] p = JS -> C_RANGE
          [] p = HTML -> C_XML
          [] p = GEN -> C_PLAIN
          [] p = DEP -> C_OLD
          [] p = TXT -> <<"Plain text file", "">>
          [] p = PNG -> C_NUL]

\* the paths handed to the operations: directories, files, and a path that does
\* not exist
PathArgs == {"proj", "proj/lib", "proj/build", "proj/nowhere", PY, PNG}

\* the LICENSE file create_license_file writes for each of these paths
LicenseFiles == {path \o "/LICENSE" : path \in PathArgs}

NoFaults == [p \in Paths \cup LicenseFiles |-> "ok"]

CUSTOM_TEMPLATE == <<"Copyright {year} {owner}", "", "Licensed to {author}.">>

OwnerVars == << <<"owner", "ACME">> >>

\* (license_template, custom_vars) pairs handed to apply_license
TemplateArgs ==
    { << <<"mit">>, NoVars >>, << <<"apache2">>, NoVars >>,
      << CUSTOM_TEMPLATE, OwnerVars >>, << CUSTOM_TEMPLATE, NoVars >> }

AuthorArgs == {"Test Author"}

YearArgs == {2023}

NewYearArgs == {999, 2022, 2025}

VerifyArgs == {"mit", "gpl3", "apache2", "bsd"}

MaxCalls == 2

---------------------------------------------------------------------------
(* The configuration object.  LicenseConfig() starts from copies of the     *)
(* module's tables; its methods change the copies.                          *)

\* LicenseConfig.__init__
LicenseConfig ==
    [license_templates |-> LICENSE_TEMPLATES, patterns |-> PATTERNS,
     ignored_dirs |-> IGNORED_DIRS]

\* self.license_templates[name] = template
add_license_template(self, name, template) ==
    [self EXCEPT !.license_templates =
        [n \in DOMAIN self.license_templates \cup {name} |->
            IF n = name THEN template ELSE self.license_templates[n]]]

\* self.patterns.append(FilePattern(extensions, comment_start, comment_end))
add_file_pattern(self, extensions, comment_start, comment_end) ==
    [self EXCEPT !.patterns =
        Append(self.patterns, FilePattern(extensions, comment_start, comment_end))]

\* self.ignored_dirs.add(dir_name)
add_ignored_dir(self, dir_name) ==
    [self EXCEPT !.ignored_dirs = self.ignored_dirs \cup {dir_name}]

\* [self, ret]: the object afterwards and the bool returned
remove_ignored_dir(self, dir_name) ==
    IF dir_name \in self.ignored_dirs
    THEN [self |-> [self EXCEPT !.ignored_dirs = self.ignored_dirs \ {dir_name}],
          ret |-> TRUE]
    ELSE [self |-> self, ret |-> FALSE]

---------------------------------------------------------------------------
(* The state machine: a run is one call of an operation, which may then be  *)
(* issued again with the same arguments.                                    *)

NoCall ==
    [op |-> "", path |-> "", license_template |-> <<"">>, author |-> "", year |-> 0,
     custom_vars |-> NoVars, force |-> FALSE]

\* what call c does to the files
Do(c, files, platform) ==
    CASE c.op = "apply_license" ->
            apply_license(files, platform, c.path, c.license_template, c.author, c.year,
                          c.custom_vars, c.force)
      [] c.op = "update_license_year" ->
            update_license_year(files, platform, c.path, c.year)
      [] c.op = "verify_license" ->
            verify_license(files, platform, c.path, c.license_template[1])
      [] c.op = "create_license_file" ->
            create_license_file(files, platform, c.path, c.license_template, c.author,
                                c.year, c.custom_vars)

Perform(c) ==
    \E r \in {Do(c, fs, env)} :
        /\ call' = c
        /\ prev' = fs
        /\ fs' = r.files
        /\ ret' = [value |-> r.ret, raised |-> r.raised]
        /\ seen' = r.seen
        /\ counted' = r.counted
        /\ ncalls' = ncalls + 1
        /\ UNCHANGED <<env, config>>

\* one file of the base tree has other content, or a fault; or a LICENSE file
\* cannot be written
Init ==
    /\ \/ \E p \in Paths, c \in Contents, m \in FaultModes, e \in Encodings :
             /\ fs = [BaseTree EXCEPT ![p] = c]
             /\ env = [fault |-> [NoFaults EXCEPT ![p] = m], encoding |-> e]
             /\ m # "ok" => (c \in {C_PLAIN, C_OLD} /\ p \in {PY, JS})
             /\ p = HTML => c \in {C_EMPTY, C_PLAIN, C_XML_SECOND, C_BLOCK_OLD}
             /\ p \notin {PY, HTML} => c \in {C_PLAIN, C_OLD, C_NUL}
             /\ e # "utf-8" => Undecodable(c)
       \/ \E path \in PathArgs, m \in {"open_w", "write"} :
             /\ is_dir(BaseTree, path)
             /\ fs = BaseTree
             /\ env = [fault |-> [NoFaults EXCEPT ![path \o "/LICENSE"] = m],
                       encoding |-> "utf-8"]
    /\ call = NoCall
    /\ ret = [value |-> 0, raised |-> ""]
    /\ prev = fs
    /\ seen = {}
    /\ counted = {}
    /\ ncalls = 0
    /\ config = LicenseConfig

ApplyLicense ==
    /\ ncalls = 0
    /\ \E path \in PathArgs, t \in TemplateArgs, author \in AuthorArgs, year \in YearArgs,
          force \in BOOLEAN :
          Perform([op |-> "apply_license", path |-> path, license_template |-> t[1],
                   author |-> author, year |-> year, custom_vars |-> t[2],
                   force |-> force])

UpdateLicenseYear ==
    /\ ncalls = 0
    /\ \E path \in PathArgs, new_year \in NewYearArgs :
          Perform([NoCall EXCEPT !.op = "update_license_year", !.path = path,
                                 !.year = new_year])

VerifyLicense ==
    /\ ncalls = 0
    /\ \E path \in PathArgs, name \in VerifyArgs :
          Perform([NoCall EXCEPT !.op = "verify_license", !.path = path,
                                 !.license_template = <<name>>])

CreateLicenseFile ==
    /\ ncalls = 0
    /\ \E path \in PathArgs, t \in TemplateArgs, author \in AuthorArgs, year \in YearArgs :
          Perform([NoCall EXCEPT !.op = "create_license_file", !.path = path,
                                 !.license_template = t[1], !.author = author,
                                 !.year = year, !.custom_vars = t[2]])

\* the same call once more
CallAgain ==
    /\ ncalls \in 1..(MaxCalls - 1)
    /\ Perform(call)

Next == ApplyLicense \/ UpdateLicenseYear \/ VerifyLicense \/ CreateLicenseFile \/ CallAgain

Spec == Init /\ [][Next]_vars

---------------------------------------------------------------------------
(* The header codec on its own: a header is built for one of the registered *)
(* comment styles, then looked for.                                         *)

CommentStyles ==
    {<<PATTERNS[k].comment_start, PATTERNS[k].comment_end>> : k \in 1..Len(PATTERNS)}

CodecTemplates == {<<"mit">>, <<"gpl3">>, <<"apache2">>, CUSTOM_TEMPLATE}

CodecAuthors == {"Test Author", "Jane Doe"}

CodecYears == {1999, 2023}

CodecInit ==
    /\ \E t \in CodecTemplates, a \in CodecAuthors, y \in CodecYears, s \in CommentStyles :
          call = [op |-> "_create_license_header", license_template |-> t, author |-> a,
                  year |-> y, custom_vars |-> OwnerVars, comment_style |-> s]
    /\ ret = [err |-> "", lines |-> <<>>, detected |-> FALSE]
    /\ fs = BaseTree
    /\ env = [fault |-> NoFaults, encoding |-> "utf-8"]
    /\ prev = fs
    /\ seen = {}
    /\ counted = {}
    /\ ncalls = 0
    /\ config = LicenseConfig

\* header_lines = _create_license_header(...)
CreateHeader ==
    /\ ncalls = 0
    /\ \E h \in {_create_license_header(ResolveTemplate(call.license_template), call.author,
                                        call.year, call.custom_vars, call.comment_style)} :
          ret' = [err |-> h.err, lines |-> h.lines, detected |-> FALSE]
    /\ ncalls' = 1
    /\ UNCHANGED <<fs, env, call, prev, seen, counted, config>>

\* _has_license_header("\n".join(header_lines), comment_start)
DetectHeader ==
    /\ ncalls = 1
    /\ ret.err = ""
    /\ ret' = [ret EXCEPT !.detected =
                  _has_license_header(JoinNL(ret.lines), call.comment_style[1])]
    /\ ncalls' = 2
    /\ UNCHANGED <<fs, env, call, prev, seen, counted, config>>

CodecNext == CreateHeader \/ DetectHeader

SpecCodec == CodecInit /\ [][CodecNext]_vars

\* C1: for every registered template and every registered comment style, line
\* style and block style alike, the header _create_license_header builds, joined
\* with newlines, is detected by _has_license_header with the style's
\* comment_start.
C1_HeaderRoundTrip ==
    (ncalls = 2 /\ call.license_template \in {<<n>> : n \in TemplateNames}) => ret.detected

\* a header of a line style has been built and is detected
C1_LineStyleDetected ==
    /\ ncalls = 2
    /\ call.license_template = <<"mit">>
    /\ call.comment_style = <<"#", "">>
    /\ ret.detected

---------------------------------------------------------------------------
(* The year codec on its own: the year of a header is extracted, the header *)
(* is rewritten to a new year, and the year is extracted again.             *)

C_TWO_YEARS == <<"# Copyright 2019 A", "# Updated 2021 by B", "">>

C_YEAR_BELOW == <<"// License", "// Copyright 2020 X", "">>

C_LONG_NUMBER == <<"# id 123456 (c) 2020 X">>

C_LEADING_ZERO == <<"# Copyright 0999 Old">>

\* a year with a letter before it, then a year on its own
C_REVISION == <<"# rev2020 (c) 2021 X", "">>

YearContents ==
    { C_PLAIN, C_OLD, C_RANGE, C_BLOCK_OLD, C_LATE, C_SHEBANG_ONLY, C_TWO_YEARS,
      C_YEAR_BELOW, C_LONG_NUMBER, C_LEADING_ZERO, C_REVISION }

YearMarkers == {"#", "//", "<!--"}

YearValues == {-2024, 0, 999, 1000, 2022, 2025, 9999, 10000}

YearInit ==
    /\ \E c \in YearContents, m \in YearMarkers, y \in YearValues :
          call = [op |-> "_update_license_year_in_content", content |-> c,
                  comment_start |-> m, new_year |-> y]
    /\ ret = [current_year |-> None, updated_content |-> <<"">>, year_after |-> None]
    /\ fs = BaseTree
    /\ env = [fault |-> NoFaults, encoding |-> "utf-8"]
    /\ prev = fs
    /\ seen = {}
    /\ counted = {}
    /\ ncalls = 0
    /\ config = LicenseConfig

\* current_year = _extract_year_from_header(content, comment_start)
ExtractYear ==
    /\ ncalls = 0
    /\ ret' = [ret EXCEPT !.current_year =
                  _extract_year_from_header(call.content, call.comment_start)]
    /\ ncalls' = 1
    /\ UNCHANGED <<fs, env, call, prev, seen, counted, config>>

\* updated_content = _update_license_year_in_content(content, comment_start, new_year)
RewriteYear ==
    /\ ncalls = 1
    /\ ret' = [ret EXCEPT !.updated_content =
                  _update_license_year_in_content(call.content, call.comment_start,
                                                  call.new_year)]
    /\ ncalls' = 2
    /\ UNCHANGED <<fs, env, call, prev, seen, counted, config>>

\* _extract_year_from_header(updated_content, comment_start)
ExtractYearAgain ==
    /\ ncalls = 2
    /\ ret' = [ret EXCEPT !.year_after =
                  _extract_year_from_header(ret.updated_content, call.comment_start)]
    /\ ncalls' = 3
    /\ UNCHANGED <<fs, env, call, prev, seen, counted, config>>

YearNext == ExtractYear \/ RewriteYear \/ ExtractYearAgain

SpecYear == YearInit /\ [][YearNext]_vars

\* C6 as stated: for every content, marker and integer year Y, if a year can be
\* extracted from the content, then the year extracted from the content
\* rewritten to Y is Y.
C6_AnyYearRoundTrip ==
    (ncalls = 3 /\ ret.current_year # None) => ret.year_after = Some(call.new_year)

\* C6: for every content, marker and year Y that str() renders as four digits
\* (1000 <= Y <= 9999), if a year can be extracted from the content, then the
\* year extracted from the content rewritten to Y is Y.
C6_FourDigitYearRoundTrip ==
    (ncalls = 3 /\ ret.current_year # None /\ call.new_year \in 1000..9999)
        => ret.year_after = Some(call.new_year)

\* a header's year has been rewritten to another year and extracted again
C6_YearRewritten ==
    /\ ncalls = 3
    /\ ret.current_year = Some(2022)
    /\ call.new_year = 2025
    /\ ret.updated_content # call.content
    /\ ret.year_after = Some(2025)

---------------------------------------------------------------------------
(* Vocabulary of the properties of the bulk operations, stated over a file  *)
(* system and platform without running an operation.                        *)

\* what is_binary classifies as binary: a binary extension, a probe that fails,
\* or a zero byte in the first ProbeChunk bytes
ClassifiedBinary(files, platform, f) ==
    \/ Lower(PathSuffix(f)) \in BINARY_EXTENSIONS
    \/ platform.fault[f] = "probe"
    \/ NulInChunk(files[f])

\* the components of a path
RECURSIVE PathParts(_)
PathParts(path) ==
    LET At(cut) ==
            IF cut = 0 THEN <<path>>
            ELSE <<SubSeq(path, 1, cut - 1)>> \o PathParts(SubSeq(path, cut + 1, Len(path)))
    IN  At(Find(path, "/", 1))

\* the names of the directories between root and file f, root itself left out
DirsBetween(root, f) ==
    LET Names(parts) == {parts[i] : i \in 1..(Len(parts) - 1)}
    IN  Names(PathParts(SubSeq(f, Len(root) + 2, Len(f))))

\* f lies beneath a sub-directory of root whose name is in IGNORED_DIRS
InPrunedSubtree(root, f) ==
    StartsWith(f, root \o "/") /\ DirsBetween(root, f) \cap IGNORED_DIRS # {}

PrunedFiles(files, root) == {f \in DOMAIN files : InPrunedSubtree(root, f)}

\* the files of the non-pruned directories of root
WalkedFiles(files, root) ==
    {f \in DOMAIN files : StartsWith(f, root \o "/") /\ ~InPrunedSubtree(root, f)}

\* the file system without the files of S
Without(files, S) == [f \in DOMAIN files \ S |-> files[f]]

\* the platform with every I/O fault taken away
FaultFree(platform) == [platform EXCEPT !.fault = NoFaults]

\* neither encoding the file processor tries decodes the file
Undecoded(files, platform, f) == Undecodable(files[f]) /\ platform.encoding = "utf-8"

\* the content of f passes _has_license_header for f's comment style
Licensed(files, platform, f) ==
    LET Passes(comment_style, rd) ==
            /\ comment_style # NoStyle
            /\ rd.err = ""
            /\ _has_license_header(rd.text, comment_style[1])
    IN  Passes(_get_comment_style(f), ReadContent(files, FaultFree(platform), f))

\* the header lines a call of apply_license builds for file f
HeaderFor(c, f) ==
    _create_license_header(ResolveTemplate(c.license_template), c.author, c.year,
                           c.custom_vars, _get_comment_style(f)).lines

\* the template of an apply_license call formats without error
Formattable(c) ==
    \/ c.op # "apply_license"
    \/ _format_license_text(ResolveTemplate(c.license_template), c.author, c.year,
                            c.custom_vars).err = ""

Changed == {f \in DOMAIN prev : fs[f] # prev[f]}

\* the operations that walk a directory
BulkOperations == {"apply_license", "update_license_year", "verify_license"}

InDirectoryMode == ncalls > 0 /\ call.op \in BulkOperations /\ is_dir(prev, call.path)

---------------------------------------------------------------------------
(* Properties of apply_license, update_license_year and verify_license      *)

\* C2: a file whose content already passes _has_license_header for its comment
\* style is left with identical content by apply_license with force=False, does
\* not count, and as the single target makes the call return 0.
C2_LicensedFileUntouched ==
    (call.op = "apply_license" /\ ~call.force) =>
        \A f \in DOMAIN prev :
            Licensed(prev, env, f) =>
                /\ fs[f] = prev[f]
                /\ f \notin counted
                /\ call.path = f => ret = [value |-> 0, raised |-> ""]

\* a directory run without force met a licensed file and gave other files a header
C2_LicensedFileMet ==
    /\ call.op = "apply_license"
    /\ ~call.force
    /\ \E f \in seen : Licensed(prev, env, f) /\ ~ClassifiedBinary(prev, env, f)
    /\ ret.raised = ""
    /\ ret.value > 0

\* C3: when apply_license modifies a supported, non-binary file whose first line
\* begins with "#!", the result, split at its line feeds, is the original first
\* line, then the header lines from line 2 on, then one blank line, then the
\* remaining original lines (the lines content.splitlines() gives).
C3_ShebangStaysFirst ==
    call.op = "apply_license" =>
        \A f \in counted :
            LET Placed(lines) ==
                    (lines # <<>> /\ StartsWith(lines[1], "#!")) =>
                        fs[f] = <<lines[1]>> \o HeaderFor(call, f) \o <<"">>
                                \o JoinNL(Tail(lines))
            IN  Placed(splitlines(ReadContent(prev, env, f).text))

\* a shell script with a shebang line and further lines got a header
C3_ShebangFileModified ==
    /\ call.op = "apply_license"
    /\ SH \in counted
    /\ prev[SH] = C_SHEBANG
    /\ fs[SH] # prev[SH]

\* C4: a file classified as binary (binary extension, zero byte in its first 1024
\* bytes, or a probe that raises) is never modified by apply_license, in file or
\* directory mode, with force either way, and adds nothing to the count.
C4_BinaryUntouched ==
    call.op = "apply_license" =>
        \A f \in DOMAIN prev :
            ClassifiedBinary(prev, env, f) =>
                /\ fs[f] = prev[f]
                /\ f \notin counted
                /\ call.path = f => ret = [value |-> 0, raised |-> ""]

\* a forced directory run met a file with a comment style and a zero byte, and
\* gave other files a header
C4_BinaryMet ==
    /\ call.op = "apply_license"
    /\ call.force
    /\ \E f \in seen : _get_comment_style(f) # NoStyle /\ NulInChunk(prev[f])
    /\ ret.raised = ""
    /\ ret.value > 0

\* the files verify_license counts in a directory: in a non-pruned directory,
\* not binary, with a comment style
Eligible(files, platform, root) ==
    {f \in WalkedFiles(files, root) :
        ~ClassifiedBinary(files, platform, f) /\ _get_comment_style(f) # NoStyle}

\* C5: verify_license on a directory returns (M, N), N the number of files in
\* non-pruned directories that are not binary and have a comment style, M the
\* number of those for which _check_file_license is true, and 0 <= M <= N.
C5_VerifyCounts ==
    (call.op = "verify_license" /\ InDirectoryMode) =>
        LET Counts(eligible, phrases) ==
                /\ ret.raised = ""
                /\ ret.value[2] = Cardinality(eligible)
                /\ ret.value[1] = Cardinality({f \in eligible :
                                      _check_file_license(prev, env, f, phrases)})
                /\ 0 <= ret.value[1]
                /\ ret.value[1] <= ret.value[2]
        IN  Counts(Eligible(prev, env, call.path),
                   _get_license_key_phrases(call.license_template[1]))

\* a directory was verified in which some, not all, eligible files match, next
\* to files that are not eligible
C5_SomeMatch ==
    /\ call.op = "verify_license"
    /\ InDirectoryMode
    /\ 0 < ret.value[1]
    /\ ret.value[1] < ret.value[2]
    /\ ret.value[2] < Cardinality(WalkedFiles(prev, call.path))

\* the files a directory run of apply_license is to give a header: in a non-pruned
\* directory, not binary, with a comment style, and without a detected header
\* unless force is set
Candidates(files, platform, c) ==
    {f \in WalkedFiles(files, c.path) :
        /\ ~ClassifiedBinary(files, platform, f)
        /\ _get_comment_style(f) # NoStyle
        /\ (c.force \/ ~Licensed(files, platform, f))}

\* the file can be read and decoded
Readable(files, platform, f) ==
    platform.fault[f] \notin {"probe", "read"} /\ ~Undecoded(files, platform, f)

\* a write to the file succeeds
Writable(platform, f) == platform.fault[f] \notin {"open_w", "write"}

Unstyled == {f \in DOMAIN prev : _get_comment_style(f) = NoStyle}

\* C7 as stated: apply_license on a directory (with a template that formats)
\* returns exactly the number of files whose content it changed; every candidate
\* is modified and counted once; every file without a comment style is
\* unchanged and not counted.
C7_CountsEveryCandidate ==
    (call.op = "apply_license" /\ InDirectoryMode /\ Formattable(call)) =>
        /\ ret.raised = ""
        /\ ret.value = Cardinality(Changed)
        /\ \A f \in Candidates(prev, env, call) : f \in Changed /\ f \in counted
        /\ \A f \in Unstyled : f \notin Changed /\ f \notin counted

\* C7: when apply_license on a directory returns, it returns exactly the number
\* of files it rewrote (a file left truncated by a failed write is not one);
\* every candidate that can be read, decoded and written is modified and
\* counted once, nothing but candidates is counted, and every file without a
\* comment style is unchanged and not counted.
C7_CountsWrittenCandidates ==
    (call.op = "apply_license" /\ InDirectoryMode /\ ret.raised = "") =>
        /\ ret.value = Cardinality({f \in Changed : Writable(env, f)})
        /\ \A f \in Candidates(prev, env, call) :
               (Readable(prev, env, f) /\ Writable(env, f)) => f \in Changed /\ f \in counted
        /\ counted \subseteq Candidates(prev, env, call)
        /\ \A f \in Unstyled : f \notin Changed /\ f \notin counted

\* a directory run gave several files a header and met a file without a style
C7_SeveralCounted ==
    /\ call.op = "apply_license"
    /\ InDirectoryMode
    /\ ret.raised = ""
    /\ ret.value >= 2
    /\ Unstyled \cap seen # {}

\* the file is one update_license_year has reason to rewrite: not binary, with a
\* comment style, a detected header and an extractable year other than new_year
YearOutdated(files, platform, f, new_year) ==
    LET Outdated(comment_style, rd) ==
            /\ comment_style # NoStyle
            /\ rd.err = ""
            /\ _has_license_header(rd.text, comment_style[1])
            /\ _extract_year_from_header(rd.text, comment_style[1])
                   \notin {None, Some(new_year)}
    IN  /\ ~ClassifiedBinary(files, platform, f)
        /\ Outdated(_get_comment_style(f), ReadContent(files, FaultFree(platform), f))

\* the content of f with the year of its header rewritten
YearRewritten(files, platform, f, new_year) ==
    _update_license_year_in_content(ReadContent(files, FaultFree(platform), f).text,
                                    _get_comment_style(f)[1], new_year)

OthersUnchanged(f) == \A g \in DOMAIN prev \ {f} : fs[g] = prev[g]

\* C8 as stated: for a single file, update_license_year returns 1 and rewrites
\* the file if and only if the file is not binary, has a comment style, passes
\* _has_license_header and has an extractable year other than Y; in every other
\* case it returns 0 and the content is unchanged.
C8_UpdatesIffOutdated ==
    (call.op = "update_license_year" /\ ncalls > 0 /\ is_file(prev, call.path)) =>
        /\ ret.raised = ""
        /\ IF YearOutdated(prev, env, call.path, call.year)
           THEN /\ ret.value = 1
                /\ fs[call.path] = YearRewritten(prev, env, call.path, call.year)
           ELSE /\ ret.value = 0
                /\ fs[call.path] = prev[call.path]

\* C8: for a single file, update_license_year returns 1 and rewrites the file if
\* and only if the file is not binary, has a comment style, can be read and
\* decoded, passes _has_license_header, has an extractable year other than Y,
\* and the write succeeds; in every other case it returns 0, and the content is
\* unchanged unless the write failed after it emptied the file.  No other file
\* changes.
C8_UpdatesIffOutdatedAndWritten ==
    (call.op = "update_license_year" /\ ncalls > 0 /\ is_file(prev, call.path)) =>
        /\ ret.raised = ""
        /\ OthersUnchanged(call.path)
        /\ IF /\ YearOutdated(prev, env, call.path, call.year)
              /\ Readable(prev, env, call.path)
              /\ Writable(env, call.path)
           THEN /\ ret.value = 1
                /\ fs[call.path] = YearRewritten(prev, env, call.path, call.year)
                /\ fs[call.path] # prev[call.path]
           ELSE /\ ret.value = 0
                /\ \/ fs[call.path] = prev[call.path]
                   \/ /\ env.fault[call.path] = "write"
                      /\ YearOutdated(prev, env, call.path, call.year)
                      /\ fs[call.path] = <<"">>

\* the year of a single file's header has been rewritten
C8_SingleFileUpdated ==
    /\ call.op = "update_license_year"
    /\ call.path = PY
    /\ prev[PY] = C_OLD
    /\ ret.value = 1
    /\ fs[PY] # prev[PY]

\* C9: in directory mode of the three operations no file beneath a sub-directory
\* of the root whose name is in IGNORED_DIRS is looked at, modified or counted,
\* and the run returns what it returns, and does to the other files what it
\* does, when those files are not there at all.
C9_PrunedSubtreesSkipped ==
    InDirectoryMode =>
        LET Same(hidden, bare) ==
                /\ \A f \in hidden : f \notin seen /\ f \notin counted /\ fs[f] = prev[f]
                /\ ret = [value |-> bare.ret, raised |-> bare.raised]
                /\ seen = bare.seen
                /\ counted = bare.counted
                /\ \A f \in DOMAIN prev \ hidden : fs[f] = bare.files[f]
            Compare(hidden) == Same(hidden, Do(call, Without(prev, hidden), env))
        IN  Compare(PrunedFiles(prev, call.path))

\* a directory run updated years while a file with an outdated year lay in a
\* pruned sub-directory
C9_OutdatedFilePruned ==
    /\ call.op = "update_license_year"
    /\ InDirectoryMode
    /\ ret.value > 0
    /\ \E f \in PrunedFiles(prev, call.path) : YearOutdated(prev, env, f, call.year)

\* the files with an I/O fault
Faulty == {f \in DOMAIN prev : env.fault[f] # "ok"}

\* a read, decode or write of f fails in the run: clean is the same run without
\* the faults
FailsOn(f, clean) ==
    \/ env.fault[f] = "read"
    \/ Undecoded(prev, env, f)
    \/ /\ env.fault[f] \in {"open_w", "write"}
       /\ call.op # "verify_license"
       /\ f \in clean.counted

\* what isolating the failures of a run means: clean is the same run without the
\* faults.  Nothing is raised; a file on which a read, decode or write fails
\* does not count; every other file is looked at, changed and counted exactly
\* as in the clean run; the run returns its counts.
Isolated(clean) ==
    /\ ret.raised = ""
    /\ \A f \in DOMAIN prev :
           FailsOn(f, clean) =>
               /\ f \notin counted
               /\ env.fault[f] # "write" => fs[f] = prev[f]
    /\ \A g \in DOMAIN prev \ Faulty :
           /\ fs[g] = clean.files[g]
           /\ g \in counted <=> g \in clean.counted
           /\ g \in seen <=> g \in clean.seen
    /\ IF call.op = "verify_license"
       THEN ret.value[1] = Cardinality(counted)
       ELSE ret.value = Cardinality(counted)

\* C10 as stated: in a directory run of the three operations over a tree with
\* a file whose read, decode or write fails, the failure makes the file count
\* as not modified, not updated, not matching and raises nothing; every other
\* file is processed exactly as in the run without the failure; the run always
\* finishes and returns its counts.
C10_AlwaysReturnsCounts ==
    (/\ InDirectoryMode
     /\ \E f \in WalkedFiles(prev, call.path) :
            env.fault[f] \in {"read", "open_w", "write"} \/ Undecoded(prev, env, f))
        => Isolated(Do(call, prev, FaultFree(env)))

\* C10: in a directory run of the three operations in which the template of
\* apply_license formats, a read, decode or write failure on a file makes the
\* file count as not modified, not updated, not matching and raises nothing;
\* every other file is looked at, changed and counted exactly as in the run
\* without the failure; the run finishes and returns its counts.
C10_FailuresIsolated ==
    (InDirectoryMode /\ Formattable(call)) => Isolated(Do(call, prev, FaultFree(env)))

\* a directory run of apply_license lost a write on one file and still gave
\* other files their header
C10_WriteLostOthersDone ==
    /\ call.op = "apply_license"
    /\ InDirectoryMode
    /\ ncalls = 1
    /\ \E f \in seen : env.fault[f] = "write" /\ fs[f] # prev[f] /\ f \notin counted
    /\ counted # {}
    /\ ret.raised = ""

---------------------------------------------------------------------------
(* Properties of template errors, missing paths and the LICENSE file        *)

\* the template of the call references a placeholder that is neither year,
\* author nor a key of custom_vars
MissingPlaceholder(c) ==
    FormatPieces(ResolveTemplate(c.license_template),
                 Replacements(c.author, c.year, c.custom_vars)).err = "KeyError"

\* the files of the target an apply_license call gets as far as building a header
\* for: the target file, or the files of the non-pruned directories, that are not
\* binary, have a comment style, can be read and decoded, and have no detected
\* header unless force is set
NeedsHeader(files, platform, c) ==
    {f \in (IF is_file(files, c.path) THEN {c.path} ELSE WalkedFiles(files, c.path)) :
        /\ ~ClassifiedBinary(files, platform, f)
        /\ _get_comment_style(f) # NoStyle
        /\ Readable(files, platform, f)
        /\ (c.force \/ ~Licensed(files, platform, f))}

\* C11 as stated: when the template references a placeholder that is not
\* supplied, apply_license raises a formatting error instead of returning a
\* count, for every target path, and no file has been modified.
C11_RaisesForEveryTarget ==
    (call.op = "apply_license" /\ MissingPlaceholder(call)) =>
        /\ ret.raised = "KeyError"
        /\ fs = prev

\* C11: when the template references a placeholder that is not supplied,
\* apply_license raises the formatting error (KeyError) exactly when its target
\* holds a file it gets as far as building a header for; for any other target
\* (a missing path, a binary or unsupported file, a licensed file without force,
\* a directory with none of these) it returns 0; in both cases no file has been
\* modified.
C11_RaisesAtFirstHeader ==
    (call.op = "apply_license" /\ MissingPlaceholder(call)) =>
        /\ ret.raised = "KeyError" <=> NeedsHeader(prev, env, call) # {}
        /\ ret.raised \in {"", "KeyError"}
        /\ ret.raised = "" => ret.value = 0
        /\ fs = prev

\* a directory run with an unsupplied placeholder raised after it had passed over
\* a file that needs no header
C11_RaisedInDirectory ==
    /\ call.op = "apply_license"
    /\ MissingPlaceholder(call)
    /\ InDirectoryMode
    /\ ret.raised = "KeyError"
    /\ Cardinality(seen) >= 2
    /\ fs = prev

---------------------------------------------------------------------------
(* The configuration object in use: registrations are made on it, then a    *)
(* bulk operation is called.  The operations read the module's tables       *)
(* (LICENSE_TEMPLATES, PATTERNS, IGNORED_DIRS), which LicenseConfig copied.  *)

CORP_NAME == "corp"

CORP_TEMPLATE == <<"Copyright {year} {author}", "", "Internal use only.">>

CONFIG_EXTENSIONS == <<".txt">>

CONFIG_COMMENT_START == ";;"

\* directory names handed to add_ignored_dir and to remove_ignored_dir
AddedDirs == {"lib", "vendor"}

RemovedDirs == {"build", "vendor"}

ConfigInit ==
    /\ fs = BaseTree
    /\ env = [fault |-> NoFaults, encoding |-> "utf-8"]
    /\ call = NoCall
    /\ ret = [value |-> 0, raised |-> ""]
    /\ prev = fs
    /\ seen = {}
    /\ counted = {}
    /\ ncalls = 0
    /\ config = LicenseConfig

\* config.add_license_template(name, template)
AddLicenseTemplate ==
    /\ ncalls = 0
    /\ CORP_NAME \notin DOMAIN config.license_templates
    /\ config' = add_license_template(config, CORP_NAME, CORP_TEMPLATE)
    /\ UNCHANGED <<fs, env, call, ret, prev, seen, counted, ncalls>>

\* config.add_file_pattern(extensions, comment_start)
AddFilePattern ==
    /\ ncalls = 0
    /\ Len(config.patterns) = Len(PATTERNS)
    /\ config' = add_file_pattern(config, CONFIG_EXTENSIONS, CONFIG_COMMENT_START, "")
    /\ UNCHANGED <<fs, env, call, ret, prev, seen, counted, ncalls>>

\* config.add_ignored_dir(dir_name)
AddIgnoredDir ==
    /\ ncalls = 0
    /\ \E dir_name \in AddedDirs \ config.ignored_dirs :
          config' = add_ignored_dir(config, dir_name)
    /\ UNCHANGED <<fs, env, call, ret, prev, seen, counted, ncalls>>

\* config.remove_ignored_dir(dir_name)
RemoveIgnoredDir ==
    /\ ncalls = 0
    /\ \E dir_name \in RemovedDirs :
          \E r \in {remove_ignored_dir(config, dir_name)} :
              /\ config' = r.self
              /\ ret' = [value |-> r.ret, raised |-> ""]
    /\ UNCHANGED <<fs, env, call, prev, seen, counted, ncalls>>

\* a bulk operation on the project, called after the registrations
ConfigBulk ==
    /\ ncalls = 0
    /\ \/ \E name \in {CORP_NAME, "mit"} :
             Perform([NoCall EXCEPT !.op = "apply_license", !.path = "proj",
                                    !.license_template = <<name>>,
                                    !.author = "Test Author", !.year = 2023])
       \/ Perform([NoCall EXCEPT !.op = "update_license_year", !.path = "proj",
                                 !.year = 2025])
       \/ Perform([NoCall EXCEPT !.op = "verify_license", !.path = "proj",
                                 !.license_template = <<"mit">>])

ConfigNext ==
    AddLicenseTemplate \/ AddFilePattern \/ AddIgnoredDir \/ RemoveIgnoredDir \/ ConfigBulk

SpecConfig == ConfigInit /\ [][ConfigNext]_vars

\* the lines occur in the text one after the other
HoldsLines(text, lines) ==
    \E k \in 0..(Len(text) - Len(lines)) : SubSeq(text, k + 1, k + Len(lines)) = lines

\* the files beneath a directory of the given name, at any depth below root
Beneath(files, root, dir_name) ==
    {f \in DOMAIN files : StartsWith(f, root \o "/") /\ dir_name \in DirsBetween(root, f)}

\* C12: what was registered on the configuration object before a bulk operation
\* is used by the operation: apply_license resolves an added template name to
\* its body, a file with an added extension gets the added comment style, the
\* files beneath an added ignored directory are passed over, and those beneath a
\* removed one (and no other ignored one) are looked at.
C12_RegistrationsUsed ==
    ncalls > 0 =>
        /\ (call.op = "apply_license"
              /\ call.license_template[1] \in DOMAIN config.license_templates) =>
               \A f \in counted :
                   HoldsLines(fs[f],
                       _create_license_header(
                           config.license_templates[call.license_template[1]],
                           call.author, call.year, call.custom_vars,
                           _get_comment_style(f)).lines)
        /\ (call.op = "apply_license" /\ Len(config.patterns) > Len(PATTERNS)
              /\ "lib" \notin config.ignored_dirs) =>
               /\ TXT \in counted
               /\ StartsWith(fs[TXT][1], CONFIG_COMMENT_START)
        /\ \A dir_name \in config.ignored_dirs :
               Beneath(prev, call.path, dir_name) \cap seen = {}
        /\ \A f \in WalkedFiles(prev, call.path) \cup Beneath(prev, call.path, "build") :
               DirsBetween(call.path, f) \cap config.ignored_dirs = {} => f \in seen

\* the target of the call is neither a file nor a directory
MissingTarget ==
    /\ ncalls > 0
    /\ \A f \in DOMAIN prev : f # call.path /\ ~StartsWith(f, call.path \o "/")

\* C13: when the root path is neither an existing file nor an existing
\* directory, apply_license and update_license_year return 0, verify_license
\* returns (0, 0) and create_license_file returns False; none of them raises and
\* none of them creates or modifies a file.
C13_MissingPathGivesZero ==
    MissingTarget =>
        /\ ret.raised = ""
        /\ fs = prev
        /\ call.op \in {"apply_license", "update_license_year"} => ret.value = 0
        /\ call.op = "verify_license" => ret.value = <<0, 0>>
        /\ call.op = "create_license_file" => ret.value = FALSE

\* create_license_file was called on a path that does not exist, with a template
\* that would not format
C13_MissingPathForLicenseFile ==
    /\ MissingTarget
    /\ call.op = "create_license_file"
    /\ MissingPlaceholder(call)
    /\ ret.value = FALSE

---------------------------------------------------------------------------
(* The command line: main(argv) selects one engine operation and turns its  *)
(* outcome into an exit code.                                               *)

\* class -> base class, for the exception classes that occur
ExceptionBase ==
    [e \in {"OSError", "ValueError", "LicenseError", "LookupError", "MemoryError",
            "Exception"} |->
        IF e = "Exception" THEN "BaseException" ELSE "Exception"]
    @@ ("KeyError" :> "LookupError") @@ ("IndexError" :> "LookupError")
    @@ ("UnicodeDecodeError" :> "ValueError") @@ ("KeyboardInterrupt" :> "BaseException")

\* isinstance(e, classes) for an exception of class e
RECURSIVE IsInstance(_, _)
IsInstance(e, classes) ==
    \/ e \in classes
    \/ e \in DOMAIN ExceptionBase /\ IsInstance(ExceptionBase[e], classes)

\* --force selects applying headers before --verify is looked at
SelectedMode_ForceFirst(args) ==
    IF args.force THEN "apply_license"
    ELSE IF args.verify THEN "verify"
    ELSE IF args.update_year THEN "update_year"
    ELSE IF args.create_license_file THEN "create_license_file"
    ELSE "apply_license"

\* the operation main selects: --verify goes before --update-year, that before
\* --create-license-file, and applying headers is the default
SelectedMode(args) ==
    IF args.verify THEN "verify"
    ELSE IF args.update_year THEN "update_year"
    ELSE IF args.create_license_file THEN "create_license_file"
    ELSE "apply_license"

\* the outcome of an engine operation in which an exception of class args.engine_raises
\* is raised before it touches a file ("": it runs to its end)
Engine(args, files, r) ==
    IF args.engine_raises = "" THEN r ELSE Raised(files, args.engine_raises, NoLog)

\* year or the current year
YearOrToday(args) == IF args.year = None THEN args.today ELSE args.year[1]

\* the exit code of a mode, unless the operation raised
ExitCode(r, code) == IF r.raised = "" THEN [r EXCEPT !.ret = code] ELSE r

process_verify_mode(files, platform, args, project_root, template) ==
    ExitCode(Engine(args, files, verify_license(files, platform, project_root, template)), 0)

process_update_year_mode(files, platform, args, project_root, year) ==
    ExitCode(Engine(args, files, update_license_year(files, platform, project_root, year)), 0)

process_create_license_file_mode(files, platform, args, project_root, template, author, year) ==
    LET Code(r) == ExitCode(r, IF r.raised = "" /\ r.ret THEN 0 ELSE 1)
    IN  Code(Engine(args, files,
                    create_license_file(files, platform, project_root, <<template>>, author,
                                        year, NoVars)))

process_apply_license_mode(files, platform, args, project_root, template, author, year, force) ==
    ExitCode(Engine(args, files,
                    apply_license(files, platform, project_root, <<template>>, author, year,
                                  NoVars, force)), 0)

\* main: [files, ret, raised, ...] with ret the exit code and raised the
\* exception that leaves main ("" when it returns)
main(files, platform, args) ==
    LET Caught(r) ==
            IF r.raised # "" /\ IsInstance(r.raised, {"OSError", "LicenseError", "ValueError"})
            THEN [r EXCEPT !.ret = 1, !.raised = ""]
            ELSE r
        Run(mode, project_root, author, year) ==
            CASE mode = "verify" ->
                    process_verify_mode(files, platform, args, project_root, args.template)
              [] mode = "update_year" ->
                    process_update_year_mode(files, platform, args, project_root, year)
              [] mode = "create_license_file" ->
                    process_create_license_file_mode(files, platform, args, project_root,
                                                     args.template, author, year)
              [] OTHER ->
                    process_apply_license_mode(files, platform, args, project_root,
                                               args.template, author, year, args.force)
    IN  IF ~is_dir(files, args.directory) THEN Returned(files, 1, NoLog)
        ELSE Caught(Run(SelectedMode(args), args.directory,
                        IF args.author = "" THEN "Author" ELSE args.author,
                        YearOrToday(args)))

\* --directory values: the project, and a directory that does not exist
CliDirectories == {"proj", "proj/nowhere"}

\* --year values: not given, or a year
CliYears == {None, Some(2022)}

\* the calendar year the run takes place in
CurrentYears == {2026}

\* exceptions an engine operation may end in for a reason outside the files
\* ("" for none): as the test suite raises them, or as the interpreter does
EngineExceptions == {"", "Exception", "OSError"}

\* main(argv) is run
Main ==
    /\ ncalls = 0
    /\ \E directory \in CliDirectories, verify \in BOOLEAN, update_year \in BOOLEAN,
          create \in BOOLEAN, force \in BOOLEAN, year \in CliYears,
          today \in CurrentYears, e \in EngineExceptions :
          \E args \in {[op |-> "main", path |-> directory, directory |-> directory,
                        template |-> "mit", author |-> "", update_year |-> update_year,
                        verify |-> verify, create_license_file |-> create,
                        force |-> force, year |-> year, today |-> today,
                        engine_raises |-> e]} :
              \E r \in {main(fs, env, args)} :
                  /\ call' = args
                  /\ prev' = fs
                  /\ fs' = r.files
                  /\ ret' = [value |-> r.ret, raised |-> r.raised]
                  /\ seen' = r.seen
                  /\ counted' = r.counted
                  /\ ncalls' = ncalls + 1
                  /\ UNCHANGED <<env, config>>

\* the program is started from the command line, or verify_license is called
\* by a program
CliNext == Main \/ VerifyLicense

SpecCli == Init /\ [][CliNext]_vars

\* C14: verify_license never changes the file system: for every target path
\* and template name every file has the same content after the call as before,
\* also when the command line gives --verify together with --force or
\* --update-year (or --create-license-file).
C14_VerifyChangesNothing ==
    (ncalls > 0 /\ (call.op = "verify_license" \/ (call.op = "main" /\ call.verify))) =>
        fs = prev

\* the command line gave --verify, --force and --update-year together for a
\* project with files that an update or a forced application would rewrite, and
\* the files were verified
C14_VerifyWithForce ==
    /\ call.op = "main"
    /\ call.verify /\ call.force /\ call.update_year
    /\ call.engine_raises = ""
    /\ ret = [value |-> 0, raised |-> ""]
    /\ Cardinality(seen) >= 2
    /\ \E f \in seen : YearOutdated(prev, env, f, YearOrToday(call))

\* C15: whenever the engine operation main selected raises an exception, of
\* any class, main returns exit code 1 and lets no exception through.
C15_AnyExceptionGivesExitOne ==
    (call.op = "main" /\ call.engine_raises # "" /\ is_dir(prev, call.directory)) =>
        ret = [value |-> 1, raised |-> ""]

\* the engine operation raised OSError and main returned exit code 1
C15_OSErrorGivesExitOne ==
    /\ call.op = "main"
    /\ call.engine_raises = "OSError"
    /\ is_dir(prev, call.directory)
    /\ ret = [value |-> 1, raised |-> ""]

---------------------------------------------------------------------------
(* The comment style of a path on its own *)

UpperChar(c) ==
    IF \E i \in 1..Len(LowerChars) : Char(LowerChars, i) = c
    THEN Char(UpperChars, CHOOSE i \in 1..Len(LowerChars) : Char(LowerChars, i) = c)
    ELSE c

RECURSIVE Upper(_)
Upper(s) == IF s = "" THEN "" ELSE UpperChar(Head(s)) \o Upper(Tail(s))

\* the extensions the patterns declare
DeclaredExtensions ==
    UNION {{PATTERNS[k].extensions[e] : e \in 1..Len(PATTERNS[k].extensions)} :
              k \in 1..Len(PATTERNS)}

\* endings no declared extension is a suffix of, in any letter case
UnknownEndings == {"", ".txt", ".pyc", ".py.txt", ".unknown", "py", ".PYX", ".h.in"}

\* what comes before the ending
StyleStems == {"test", "src.js/Main", "pkg/"}

\* an extension as declared, in capitals, and with its first letter a capital
LetterCases(ext) ==
    {ext, Upper(ext), SubSeq(ext, 1, 1) \o Upper(SubSeq(ext, 2, 2)) \o SubSeq(ext, 3, Len(ext))}

StyleInit ==
    /\ \E stem \in StyleStems :
          \/ \E ext \in DeclaredExtensions : \E ending \in LetterCases(ext) :
                call = [op |-> "_get_comment_style", path |-> stem \o ending,
                        extension |-> ext]
          \/ \E ending \in UnknownEndings :
                call = [op |-> "_get_comment_style", path |-> stem \o ending,
                        extension |-> ""]
    /\ ret = [style |-> NoStyle]
    /\ fs = BaseTree
    /\ env = [fault |-> NoFaults, encoding |-> "utf-8"]
    /\ prev = fs
    /\ seen = {}
    /\ counted = {}
    /\ ncalls = 0
    /\ config = LicenseConfig

\* comment_style = _get_comment_style(file_path)
ResolveStyle ==
    /\ ncalls = 0
    /\ ret' = [style |-> _get_comment_style(call.path)]
    /\ ncalls' = 1
    /\ UNCHANGED <<fs, env, call, prev, seen, counted, config>>

StyleNext == ResolveStyle

SpecStyle == StyleInit /\ [][StyleNext]_vars

\* the patterns that declare the extension
Declaring(ext) ==
    {k \in 1..Len(PATTERNS) :
        \E e \in 1..Len(PATTERNS[k].extensions) : PATTERNS[k].extensions[e] = ext}

\* C16: _get_comment_style returns the (comment_start, comment_end) pair of the
\* first pattern in PATTERNS order that has an extension which is a
\* case-insensitive suffix of the path, and None when no extension of any
\* pattern is such a suffix; a path ending in an extension E declared by a
\* pattern with style S, in any letter case, resolves to S.
C16_FirstPatternStyle ==
    ncalls = 1 =>
        /\ call.extension = "" => ret.style = NoStyle
        /\ call.extension # "" =>
               /\ ret.style = << PATTERNS[Min(Declaring(call.extension))].comment_start,
                                 PATTERNS[Min(Declaring(call.extension))].comment_end >>
               /\ \A k \in Declaring(call.extension) :
                      ret.style = <<PATTERNS[k].comment_start, PATTERNS[k].comment_end>>

\* a path with an extension in capitals below a directory whose name ends in
\* another extension got the style of its own extension
C16_CapitalsResolved ==
    /\ ncalls = 1
    /\ call.path = "src.js/Main.HTML"
    /\ ret.style = <<"<!--", "-->">>

---------------------------------------------------------------------------
(* Properties of the text apply_license writes *)

\* the lines among the first two that are XML or DOCTYPE declarations
EarlyDeclarations(lines) ==
    {i \in 1..Min({2, Len(lines)}) : IsDeclaration(lines[i])}

\* C17: when apply_license modifies a file with extension .ui, .qrc, .xml, .svg
\* or .html that has no shebang and has a declaration (<?xml or <!DOCTYPE) in
\* one of its first two lines, every such declaration line still precedes the
\* header: the output is the original lines up to and including them, then the
\* header, then a blank line, then the remaining original lines.
C17_DeclarationsPrecedeHeader ==
    call.op = "apply_license" =>
        \A f \in counted :
            LET Placed(lines) ==
                    (/\ lines # <<>>
                     /\ ~StartsWith(lines[1], "#!")
                     /\ EarlyDeclarations(lines) # {}) =>
                        \E n \in 1..Len(lines) :
                            /\ \A i \in EarlyDeclarations(lines) : i <= n
                            /\ fs[f] = SubSeq(lines, 1, n) \o HeaderFor(call, f) \o <<"">>
                                       \o JoinNL(SubSeq(lines, n + 1, Len(lines)))
            IN  _is_special_xml_file(f) =>
                    Placed(splitlines(ReadContent(prev, env, f).text))


\* f is a regular file for the file processor: not empty, no shebang, and not
\* the XML declaration case
RegularFile(f, lines) ==
    /\ lines # <<>>
    /\ ~StartsWith(lines[1], "#!")
    /\ ~(_is_special_xml_file(f) /\ EarlyDeclarations(lines) # {})

\* C18: for a regular file (not empty, no shebang, not the XML declaration case)
\* with no detected license header, apply_license writes the same content with
\* force=True as with force=False, template, author and year being the same.
C18_ForceWritesSameContent ==
    call.op = "apply_license" =>
        LET Same(other) ==
                \A f \in counted \cap other.counted :
                    (/\ ~Licensed(prev, env, f)
                     /\ RegularFile(f, splitlines(ReadContent(prev, env, f).text)))
                        => fs[f] = other.files[f]
        IN  Same(Do([call EXCEPT !.force = ~call.force], prev, env))

---------------------------------------------------------------------------
(* Properties of create_license_file *)

\* no line of the text opens with a comment marker of any pattern
Uncommented(text) ==
    \A i \in 1..Len(text), k \in 1..Len(PATTERNS) :
        ~StartsWith(text[i], PATTERNS[k].comment_start)

\* C19: create_license_file returns True and leaves path/LICENSE holding
\* exactly the formatted template body, without comment markers, when path is
\* an existing directory and the write succeeds; it returns False and writes
\* nothing when path is not an existing directory; it returns False when the
\* write fails; no file other than path/LICENSE is changed.
C19_LicenseFileWritten ==
    (ncalls > 0 /\ call.op = "create_license_file") =>
        LET license_file == call.path \o "/LICENSE"
            Written(formatted_license) ==
                /\ ret.raised = ""
                /\ IF Writable(env, license_file)
                   THEN /\ ret.value = TRUE
                        /\ license_file \in DOMAIN fs
                        /\ fs[license_file] = formatted_license
                        /\ Uncommented(fs[license_file])
                   ELSE ret.value = FALSE
            Outcome(formatted) ==
                /\ \A f \in DOMAIN prev \ {license_file} : f \in DOMAIN fs /\ fs[f] = prev[f]
                /\ DOMAIN fs \subseteq DOMAIN prev \cup {license_file}
                /\ ~is_dir(prev, call.path) =>
                      ret = [value |-> FALSE, raised |-> ""] /\ fs = prev
                /\ (is_dir(prev, call.path) /\ formatted.err = "") => Written(formatted.text)
        IN  Outcome(_format_license_text(ResolveTemplate(call.license_template),
                                         call.author, call.year, call.custom_vars))

\* a LICENSE file that was not there was created in a directory
C19_LicenseCreated ==
    /\ call.op = "create_license_file"
    /\ ret.value = TRUE
    /\ call.path \o "/LICENSE" \notin DOMAIN prev
    /\ call.path \o "/LICENSE" \in DOMAIN fs
    /\ fs[call.path \o "/LICENSE"][1] = "The MIT License (MIT)"

---------------------------------------------------------------------------
(* What apply_license keeps of the original file *)

\* xs occurs in ys as a subsequence, in the same order
RECURSIVE InOrder(_, _)
InOrder(xs, ys) ==
    IF xs = <<>> THEN TRUE
    ELSE IF ys = <<>> THEN FALSE
    ELSE IF Head(xs) = Head(ys) THEN InOrder(Tail(xs), Tail(ys))
    ELSE InOrder(xs, Tail(ys))

\* the text a ends the text b
TextEndsWith(b, a) ==
    /\ Len(a) <= Len(b)
    /\ EndsWith(b[Len(b) - Len(a) + 1], a[1])
    /\ \A i \in 2..Len(a) : b[Len(b) - Len(a) + i] = a[i]

\* every line of the file as it was read is a line of the file as it reads now,
\* in the same order
LinesKept(f) ==
    InOrder(splitlines(ReadContent(prev, env, f).text),
            splitlines(read_text(fs, FaultFree(env), f, "utf-8").text))

\* the branch that prepends the header to the content as read
DefaultBranch(f) ==
    /\ ~call.force
    /\ RegularFile(f, splitlines(ReadContent(prev, env, f).text))

\* C20: apply_license never removes or reorders original content: every line of
\* a file it modified is in the output, in the original order, whatever the
\* branch and with force or without, and in the default branch without force
\* the file's original content is an exact suffix of the output.
C20_OriginalContentKept ==
    call.op = "apply_license" =>
        \A f \in counted :
            /\ LinesKept(f)
            /\ DefaultBranch(f) => TextEndsWith(fs[f], prev[f])

---------------------------------------------------------------------------
(* The shape of a header *)

\* the formatted body of the header call: the formatted template, stripped, as lines
FormattedBody(c) ==
    SplitNL(StripText(_format_license_text(ResolveTemplate(c.license_template), c.author,
                                           c.year, c.custom_vars).text))

\* C21: for a formatted body of n lines, _create_license_header returns, for a
\* non-empty comment_end, n+2 lines: comment_start alone, each body line after
\* one space (a blank body line as a single space), comment_end alone; and for
\* an empty comment_end n lines, each comment_start, a space and the body line,
\* a blank body line being the bare comment_start.
C21_HeaderShape ==
    (ncalls >= 1 /\ call.op = "_create_license_header" /\ ret.err = "") =>
        LET Shape(body, n, comment_start, comment_end) ==
                IF comment_end # ""
                THEN /\ Len(ret.lines) = n + 2
                     /\ ret.lines[1] = comment_start
                     /\ ret.lines[n + 2] = comment_end
                     /\ \A i \in 1..n :
                           ret.lines[i + 1] = IF Strip(body[i]) = "" THEN " "
                                              ELSE " " \o body[i]
                ELSE /\ Len(ret.lines) = n
                     /\ \A i \in 1..n :
                           ret.lines[i] = IF Strip(body[i]) = "" THEN comment_start
                                          ELSE comment_start \o " " \o body[i]
            Shaped(body) == Shape(body, Len(body), call.comment_style[1], call.comment_style[2])
        IN  Shaped(FormattedBody(call))

\* a header with a blank body line was built, for a line style or a block style
C21_BlankLineRendered ==
    /\ ncalls >= 1
    /\ call.op = "_create_license_header"
    /\ ret.err = ""
    /\ \E i \in 1..Len(ret.lines) :
          \/ call.comment_style[2] = "" /\ ret.lines[i] = call.comment_style[1]
          \/ call.comment_style[2] # "" /\ 1 < i /\ i < Len(ret.lines) /\ ret.lines[i] = " "

---------------------------------------------------------------------------
(* Header detection on its own: _has_license_header is asked about a content *)
(* whose only non-empty line stands at a chosen position.                    *)

DetectLines ==
    { "# Copyright 2022 A", "# COPYRIGHT 2022 A", "  # Copyright 2022 A", "# plain comment",
      "// see permit.txt", "Copyright 2022 A", "<!-- © 2022 A -->", "/* Apache */",
      "# gpl", "rem License", "REM nothing" }

DetectPositions == {1, 10, 11}

DetectMarkers == {"#", "//", "<!--", "/*", "REM"}

\* at - 1 empty lines, then the line
LineAt(line, at) == [i \in 1..at |-> IF i = at THEN line ELSE ""]

DetectInit ==
    /\ \E line \in DetectLines, at \in DetectPositions, m \in DetectMarkers :
          call = [op |-> "_has_license_header", content |-> LineAt(line, at),
                  comment_start |-> m]
    /\ ret = [detected |-> FALSE]
    /\ fs = BaseTree
    /\ env = [fault |-> NoFaults, encoding |-> "utf-8"]
    /\ prev = fs
    /\ seen = {}
    /\ counted = {}
    /\ ncalls = 0
    /\ config = LicenseConfig

\* _has_license_header(content, comment_start)
HasLicenseHeader ==
    /\ ncalls = 0
    /\ ret' = [detected |-> _has_license_header(call.content, call.comment_start)]
    /\ ncalls' = 1
    /\ UNCHANGED <<fs, env, call, prev, seen, counted, config>>

DetectNext == HasLicenseHeader

SpecDetect == DetectInit /\ [][DetectNext]_vars

\* the line starts with the marker and holds an indicator, letter case aside
Qualifies(line, comment_start) ==
    /\ StartsWith(Lower(line), Lower(comment_start))
    /\ \E ind \in {"license", "copyright", "mit", "gpl", "apache", "©"} :
           Contains(Lower(line), ind)

\* C22: _has_license_header(content, comment_start) is true exactly when one of
\* the first 10 lines of content starts with comment_start, with no whitespace
\* before it, and contains one of license, copyright, mit, gpl, apache, ©, both
\* regardless of letter case; a qualifying line at position 11 or later does not
\* make it true.
C22_DetectsInFirstTenLines ==
    (ncalls = 1 /\ call.op = "_has_license_header") =>
        (ret.detected <=>
            \E i \in 1..Min({10, Len(call.content)}) :
                Qualifies(call.content[i], call.comment_start))

\* a qualifying line at position 11 was not detected, one at position 10 was
C22_EleventhLineIgnored ==
    /\ ncalls = 1
    /\ call.op = "_has_license_header"
    /\ Len(call.content) = 11
    /\ Qualifies(call.content[11], call.comment_start)
    /\ ~ret.detected

---------------------------------------------------------------------------
(* Which files verify_license counts as matching *)

\* the first 20 lines of the text, in lower case, every run of white space
\* collapsed to one space
NormalisedTop(text) ==
    CollapseSpace([k \in 1..Min({20, Len(text)}) |-> Lower(text[k])])

\* the key phrases of the call that occur in the normalised top of the text
FoundPhrases(c, text) ==
    LET Found(phrases, norm_content) ==
            {k \in 1..Len(phrases) : Contains(norm_content, phrases[k])}
    IN  Found(_get_license_key_phrases(c.license_template[1]), NormalisedTop(text))

\* C23: an eligible file counts as matching in verify_license exactly when it
\* passes _has_license_header and the number k of the template's key phrases
\* found in the whitespace-collapsed, lower-cased first 20 lines satisfies
\* 2*k >= the number of key phrases; for a template name other than mit, gpl3
\* and apache2 the phrases are copyright and license, so one of them suffices.
C23_MatchesWithHalfThePhrases ==
    (ncalls > 0 /\ call.op = "verify_license") =>
        \A f \in seen :
            LET Passes(rd, comment_start) ==
                    rd.err = "" /\ _has_license_header(rd.text, comment_start)
                Matching(rd, comment_start) ==
                    /\ f \in counted <=>
                          /\ Passes(rd, comment_start)
                          /\ 2 * Cardinality(FoundPhrases(call, rd.text))
                                >= Len(_get_license_key_phrases(call.license_template[1]))
                    /\ call.license_template[1] \notin {"mit", "gpl3", "apache2"} =>
                          (f \in counted <=>
                              /\ Passes(rd, comment_start)
                              /\ \/ Contains(NormalisedTop(rd.text), "copyright")
                                 \/ Contains(NormalisedTop(rd.text), "license"))
            IN  (~ClassifiedBinary(prev, env, f) /\ _get_comment_style(f) # NoStyle) =>
                    Matching(ReadContent(prev, env, f), _get_comment_style(f)[1])

\* a file matched although one of the key phrases is not in it, while another
\* file with a header did not match
C23_MatchedWithoutEveryPhrase ==
    /\ ncalls > 0
    /\ call.op = "verify_license"
    /\ \E f \in counted :
          LET Partly(found, phrases) == found # {} /\ Cardinality(found) < Len(phrases)
          IN  Partly(FoundPhrases(call, ReadContent(prev, env, f).text),
                     _get_license_key_phrases(call.license_template[1]))
    /\ \E g \in seen \ counted : Licensed(prev, env, g)

---------------------------------------------------------------------------
(* What _update_license_year_in_content leaves alone *)

\* where the first run of exactly four digits starts in the line, 0 when none:
\* four digits with no digit before and none after
FirstDigitRun(line) ==
    LET First(hits) == IF hits = {} THEN 0 ELSE Min(hits)
        Digit(i) == i >= 1 /\ i <= Len(line) /\ Char(line, i) \in DigitSet
    IN  First({i \in 1..(Len(line) - 3) :
                 /\ \A k \in i..(i + 3) : Digit(k)
                 /\ ~Digit(i - 1)
                 /\ ~Digit(i + 4)})

\* updated is line with nothing but the four characters from at on replaced
OnlyRunDiffers(line, updated, at) ==
    /\ at # 0
    /\ Len(updated) >= Len(line) - 4
    /\ StartsWith(updated, SubSeq(line, 1, at - 1))
    /\ EndsWith(updated, SubSeq(line, at + 4, Len(line)))

\* the rewritten content differs from the content only in the runs, runs[i]
\* being where the run of line i starts, of lines among the first 10 that start
\* with the marker
YearFrame(runs, content, updated_content, comment_start) ==
    /\ Len(updated_content) = Len(content)
    /\ \A i \in 1..Len(content) :
          \/ updated_content[i] = content[i]
          \/ /\ i <= 10
             /\ StartsWith(content[i], comment_start)
             /\ OnlyRunDiffers(content[i], updated_content[i], runs[i])

\* C24 as stated: _update_license_year_in_content changes nothing except the
\* first 4-digit run of each of the first 10 lines that start with the marker:
\* the number of lines is the same, the lines from the 11th on, the lines
\* without the marker and the lines without a 4-digit run are unchanged, and on
\* a changed line only the first 4-digit run differs.
C24_OnlyFirstDigitRunChanges ==
    (ncalls >= 2 /\ call.op = "_update_license_year_in_content") =>
        YearFrame([i \in 1..Len(call.content) |-> FirstDigitRun(call.content[i])],
                  call.content, ret.updated_content, call.comment_start)

\* C24: _update_license_year_in_content changes nothing except, in each of the
\* first 10 lines that start with the marker, the first run of four digits that
\* has no letter, digit or underscore next to it: the number of lines is the
\* same, every other line is unchanged, and on a changed line only that run
\* differs (a range such as 2020-2023 keeps its second year).
C24_OnlyFirstBoundedRunChanges ==
    (ncalls >= 2 /\ call.op = "_update_license_year_in_content") =>
        YearFrame([i \in 1..Len(call.content) |-> YearSearch(call.content[i])],
                  call.content, ret.updated_content, call.comment_start)

\* the first year of a range was rewritten, the second one kept
C24_RangeKeepsSecondYear ==
    /\ ncalls >= 2
    /\ call.op = "_update_license_year_in_content"
    /\ call.content = C_RANGE
    /\ call.new_year = 2025
    /\ ret.updated_content = <<"// Copyright 2025-2023 Test", "// All rights reserved.", "">>

---------------------------------------------------------------------------
(* Repeated runs *)

\* the call just performed repeats the call before it
Repeated(op) == ncalls >= 2 /\ call.op = op

\* C25 as stated: after update_license_year(path, Y) has completed on a file or
\* directory, the same call made again returns 0 and leaves every file
\* unchanged.
C25_SecondUpdateDoesNothing ==
    Repeated("update_license_year") =>
        /\ ret = [value |-> 0, raised |-> ""]
        /\ fs = prev

\* C25: for a year Y of four digits (1000 <= Y <= 9999), after
\* update_license_year(path, Y) has completed on a file or directory, the same
\* call made again returns 0 and leaves every file unchanged.
C25_SecondUpdateDoesNothingForFourDigits ==
    (Repeated("update_license_year") /\ call.year \in 1000..9999) =>
        /\ ret = [value |-> 0, raised |-> ""]
        /\ fs = prev

\* the first run rewrote the year of a range in a directory, the second run
\* found nothing to do
C25_RewrittenThenLeft ==
    /\ Repeated("update_license_year")
    /\ call.path = "proj"
    /\ call.year = 2025
    /\ prev[JS][1] = "// Copyright 2025-2023 Test"
    /\ ret.value = 0
    /\ fs = prev


\* the template of the call is one of the registered names
RegisteredTemplate(c) == c.license_template \in {<<n>> : n \in TemplateNames}

\* C26: apply_license without force is idempotent: after
\* apply_license(path, T, author, year, force=False) with a registered template
\* T has completed on a file or directory, the same call made again returns 0
\* and leaves every file unchanged, for line and block comment styles and in
\* every insertion branch (empty file, shebang, XML declaration, regular).
C26_SecondApplyDoesNothing ==
    (Repeated("apply_license") /\ ~call.force /\ RegisteredTemplate(call)) =>
        /\ ret = [value |-> 0, raised |-> ""]
        /\ fs = prev

---------------------------------------------------------------------------
(* A run of apply_license followed by verify_license on the same path with  *)
(* the same template                                                        *)

\* verify_license(path, T) after apply_license(path, T, ...) has returned; seen
\* keeps the files the apply run wrote, counted the files verify found matching,
\* and the call keeps the force flag of the apply run
VerifyApplied ==
    /\ ncalls = 1
    /\ call.op = "apply_license"
    /\ ret.raised = ""
    /\ RegisteredTemplate(call)
    /\ \E r \in {Do([NoCall EXCEPT !.op = "verify_license", !.path = call.path,
                                   !.license_template = call.license_template],
                    fs, env)} :
          /\ call' = [call EXCEPT !.op = "verify_license"]
          /\ prev' = fs
          /\ fs' = r.files
          /\ ret' = [value |-> r.ret, raised |-> r.raised]
          /\ seen' = counted
          /\ counted' = r.counted
          /\ ncalls' = 2
          /\ UNCHANGED <<env, config>>

ApplyVerifyNext == ApplyLicense \/ VerifyApplied

SpecApplyVerify == Init /\ [][ApplyVerifyNext]_vars

\* C27: every file apply_license modified with a registered template T is
\* counted as matching by a following verify_license with the same T, whatever
\* the comment style, so that applying T with force=True to a directory, all
\* files being readable and writable, and verifying it returns (N, N).
C27_AppliedFilesVerify ==
    (ncalls = 2 /\ call.op = "verify_license") =>
        /\ seen \subseteq counted
        /\ (/\ call.force
            /\ is_dir(prev, call.path)
            /\ env.fault = NoFaults
            /\ \A f \in DOMAIN prev : ~Undecoded(prev, env, f))
              => ret.value[1] = ret.value[2]

---------------------------------------------------------------------------
(* The shebang line under update_license_year *)

\* C28: update_license_year never alters a shebang line: for every file whose
\* first line begins with '#!', the first line after the call is the first line
\* before it, also when that line holds a 4-digit run and the file's comment
\* marker is '#'.
C28_ShebangLineKept ==
    (ncalls > 0 /\ call.op = "update_license_year") =>
        \A f \in counted :
            LET Kept(before, after) == StartsWith(before[1], "#!") => after[1] = before[1]
            IN  Kept(ReadContent(prev, env, f).text,
                     read_text(fs, FaultFree(env), f, "utf-8").text)

============================================================================
